---- MODULE Spec2Model ----
(***************************************************************************)
(* TerminaX remote session engine.                                         *)
(*                                                                         *)
(*   Spec        ConnectionManager + TerminalManager + ConnectionState-    *)
(*               Tracker + the SSHPseudoTerminal of every session, driven  *)
(*               by the operator, VS Code and the ssh2 / child-process     *)
(*               transports.                                               *)
(*   SpecHealth  HealthCheckManager: scheduler, fleet-wide and per-host    *)
(*               checks, TCP probes, configuration changes.                *)
(***************************************************************************)
EXTENDS Integers, Sequences, FiniteSets, TLC

(* ------------------------------ bounds --------------------------------- *)
\* pseudoterminals (sessions) ConnectionManager.connect may create
MaxSessions == 2
\* ssh2 Client objects of one pseudoterminal that can still raise events
MaxClients == 2
\* connect() calls one pseudoterminal makes over its lifetime
MaxAttempts == 3
\* values Date.now() takes over the run
MaxNow == 1
\* consecutive failed probes of one host
MaxFailures == 2
\* bytes the output channels of a connection deliver altogether
MaxLen == 4
\* 'data' chunks one output channel delivers over a connection
MaxWrites == 2

(* ------------------------------ constants ------------------------------ *)
Hosts == {"hA", "hB"}
AuthMethods == {"password", "keyfile", "agent", "openssh"}

DISCONNECTED == "disconnected"
CONNECTED == "connected"
ERROR == "error"
ConnectionStatus == {DISCONNECTED, CONNECTED, ERROR}

NoState == [status |-> "undefined", terminalId |-> <<>>]
NoEmit == "none"
\* hlast before any HealthCheckManager step
NoStep == [op |-> "none", host |-> "", notes |-> <<>>, started |-> {}]

PtyIds == 1..MaxSessions
ClientIds == 1..MaxClients

(* ------------------------------ helpers -------------------------------- *)
\* Map.set / Map.delete on a function with a dynamic domain
Put(f, k, v) == [x \in (DOMAIN f) \cup {k} |-> IF x = k THEN v ELSE f[x]]
Del(f, k) == [x \in (DOMAIN f) \ {k} |-> f[x]]

\* Set.add / Set.delete on an insertion-ordered Set, kept as a sequence
SeqHas(s, e) == \E i \in 1..Len(s) : s[i] = e
SetAdd(s, e) == IF SeqHas(s, e) THEN s ELSE Append(s, e)
SetDelete(s, e) == SelectSeq(s, LAMBDA x : x # e)
Range(s) == {s[i] : i \in 1..Len(s)}

RECURSIVE SumOver(_, _)
SumOver(f, S) ==
  IF S = {} THEN 0
  ELSE LET x == CHOOSE y \in S : TRUE IN f[x] + SumOver(f, S \ {x})

VARIABLES
  \* ---- ConnectionManager / TerminalManager / ConnectionStateTracker
  now,                \* Date.now()
  authMethod,         \* host.config.authMethod of every host
  stored,             \* CredentialService: a password is stored for the host
  nPty,               \* pseudoterminals constructed so far
  pty,                \* SSHPseudoTerminal objects, by construction order
  terminals,          \* TerminalManager.terminals: terminalId -> pty
  terminalsByHost,    \* TerminalManager.terminalsByHost: host -> ids
  terminalStatuses,   \* ConnectionManager.terminalStatuses
  states,             \* ConnectionStateTracker.states
  broadcastHostIds,   \* ConnectionManager.broadcastHostIds
  broadcastActive,    \* ConnectionManager.broadcastActive
  lastBroadcast,      \* what broadcastCommand returned and did, if it just ran
  limits,             \* what the operator does at most in this run
  \* ---- HealthCheckManager
  enabled,            \* terminax.healthChecks.enabled
  visible,            \* ConfigManager.getAllVisibleHosts()
  hstates,            \* HealthCheckManager.states
  activeChecks,       \* HealthCheckManager.activeChecks
  intervalHandle,     \* HealthCheckManager.intervalHandle is set
  runningCheckAll,    \* HealthCheckManager.runningCheckAll
  disposed,           \* HealthCheckManager.disposed
  started,            \* HealthCheckManager.start has run
  probes,             \* outstanding probeTcp promises, with their closure
  pendingAll,         \* hosts the running checkAllNow still awaits
  hlast,              \* the latest HealthCheckManager step taken
  \* ---- the output decoders of one SSHPseudoTerminal
  chunkInput,         \* the bytes each output channel will deliver
  chunks,             \* the lengths of the 'data' chunks delivered so far
  decoders,           \* the StringDecoder of each channel
  emitted,            \* the text fired on writeEmitter for each channel
  flushed,            \* flushDecoder has run on the channels
  \* ---- WorkspaceSessionManager
  sessions,           \* WorkspaceSessionManager.sessions: id -> snapshot, pty
  wevents,            \* per session id, the 'added' and 'removed' events fired
  wlast,              \* the events onDidSessionEvent fired in the latest step
  lastInput,          \* what broadcastInput returned and did, if it just ran
  \* ---- ConfigManager
  nodes,              \* config.nodes: the ids of the nodes, in array order
  objs,               \* the TreeNode objects ever added, by id
  deleting            \* the deleteNode calls in flight, outermost first

connVars == <<now, authMethod, stored, nPty, pty, terminals, terminalsByHost,
              terminalStatuses, states, broadcastHostIds, broadcastActive,
              lastBroadcast, limits>>
healthVars == <<enabled, visible, hstates, activeChecks, intervalHandle,
                runningCheckAll, disposed, started, probes, pendingAll, hlast>>
decVars == <<chunkInput, chunks, decoders, emitted, flushed>>
wsVars == <<sessions, wevents, wlast, lastInput>>
cfgVars == <<nodes, objs, deleting>>
vars == <<connVars, healthVars, decVars, wsVars, cfgVars>>

(* ======================================================================= *)
(*  ConnectionStateTracker / TerminalManager / ConnectionManager helpers   *)
(* ======================================================================= *)

\* TerminalManager.getTerminalIdsByHost
getTerminalIdsByHost(byHost, h) == IF h \in DOMAIN byHost THEN byHost[h] ELSE <<>>

\* terminalStatuses.get(id) || DISCONNECTED
StatusOf(statuses, id) == IF id \in DOMAIN statuses THEN statuses[id] ELSE DISCONNECTED

\* recomputeHostState with the Error test ahead of the Connected test
recomputeHostState_ErrorFirst(byHost, statuses, h) ==
  LET ids == getTerminalIdsByHost(byHost, h)
  IN  IF Len(ids) = 0
        THEN [status |-> DISCONNECTED, terminalId |-> <<>>]
      ELSE IF \E i \in 1..Len(ids) : StatusOf(statuses, ids[i]) = ERROR
        THEN [status |-> ERROR, terminalId |-> ids[1]]
      ELSE IF \E i \in 1..Len(ids) : StatusOf(statuses, ids[i]) = CONNECTED
        THEN [status |-> CONNECTED, terminalId |-> ids[1]]
      ELSE [status |-> DISCONNECTED, terminalId |-> ids[1]]

\* recomputeHostState looking at the first session only
recomputeHostState_FirstOnly(byHost, statuses, h) ==
  LET ids == getTerminalIdsByHost(byHost, h)
  IN  IF Len(ids) = 0
        THEN [status |-> DISCONNECTED, terminalId |-> <<>>]
        ELSE [status |-> StatusOf(statuses, ids[1]), terminalId |-> ids[1]]

\* ConnectionManager.recomputeHostState: the entry written to the tracker
recomputeHostState(byHost, statuses, h) ==
  LET ids == getTerminalIdsByHost(byHost, h)
      conn == {i \in 1..Len(ids) : StatusOf(statuses, ids[i]) = CONNECTED}
  IN  IF Len(ids) = 0
        THEN [status |-> DISCONNECTED, terminalId |-> <<>>]
      ELSE IF conn # {}
        THEN [status |-> CONNECTED,
              terminalId |-> ids[CHOOSE i \in conn : \A j \in conn : i <= j]]
      ELSE IF \E i \in 1..Len(ids) : StatusOf(statuses, ids[i]) = ERROR
        THEN [status |-> ERROR, terminalId |-> ids[1]]
      ELSE [status |-> DISCONNECTED, terminalId |-> ids[1]]

\* TerminalManager.addTerminal on the by-host index
addTerminal(byHost, h, id) ==
  Put(byHost, h, SetAdd(getTerminalIdsByHost(byHost, h), id))

\* removeTerminal keeping the per-host set it emptied
removeTerminal_KeepsEmptySet(byHost, h, id) ==
  IF h \notin DOMAIN byHost THEN byHost
  ELSE Put(byHost, h, SetDelete(byHost[h], id))

\* TerminalManager.removeTerminal on the by-host index
removeTerminal(byHost, h, id) ==
  IF h \notin DOMAIN byHost THEN byHost
  ELSE LET rest == SetDelete(byHost[h], id)
       IN  IF Len(rest) = 0 THEN Del(byHost, h) ELSE Put(byHost, h, rest)

\* ConnectionManager.handleStatusUpdate(hostId, terminalId, status)
handleStatusUpdate(h, id, status) ==
  /\ terminalStatuses' = Put(terminalStatuses, id, status)
  /\ states' = [states EXCEPT ![h] =
                  recomputeHostState(terminalsByHost, terminalStatuses', h)]

\* the pty's statusCallback: SSHPseudoTerminal.updateStatus
updateStatus(p, emit) ==
  IF emit = NoEmit
    THEN UNCHANGED <<terminalStatuses, states>>
    ELSE handleStatusUpdate(pty[p].host, pty[p].tid, emit)

(* ======================================================================= *)
(*  SSHPseudoTerminal                                                      *)
(* ======================================================================= *)

\* error messages the transports report, by the class of their text
ErrMsgs == {"auth", "refused", "etimedout", "timedout", "dns",
            "ehostunreach", "econnreset", "generic"}

\* SSHPseudoTerminal.interpretConnectionError(errorMsg).kind
interpretConnectionError(msg) ==
  CASE msg = "auth" -> "auth"
    [] msg = "refused" -> "refused"
    [] msg \in {"etimedout", "timedout"} -> "timeout"
    [] msg = "dns" -> "dns"
    [] msg = "ehostunreach" -> "network"
    [] OTHER -> "generic"

\* the isNetworkError test of handleErrorAsync
isNetworkError(msg) == msg \in {"etimedout", "econnreset", "ehostunreach"}

\* a Client slot: st and sh are the states of the Client and of its shell
\* stream; nEnd and nStreamClose count the client.end() and stream.close()
\* calls teardownConnection made on them
NoClient == [st |-> "none", sh |-> "no", nEnd |-> 0, nStreamClose |-> 0]

\* a pseudoterminal as its constructor leaves it
NewPty(h, id) ==
  [created |-> TRUE, host |-> h, tid |-> id,
   client |-> 0, stream |-> 0, nativeProcess |-> "null",
   openSshConnectedTimer |-> FALSE,
   cl |-> [c \in ClientIds |-> NoClient],
   streamClosedGracefully |-> FALSE, isCleanedUp |-> FALSE,
   hasRetriedAuthentication |-> FALSE, passwordOverride |-> FALSE,
   hasEverConnected |-> FALSE, openSshMarkedConnected |-> FALSE,
   nDel |-> 0, nRetryPrompt |-> 0, nCfg |-> 0, nReconn |-> 0, nKill |-> 0,
   nMark |-> 0,
   closeFired |-> 0, closeCalled |-> FALSE,
   termClosed |-> FALSE,
   attempts |-> 0, cycAttempts |-> 0, cycAuthFails |-> 0,
   exitHow |-> "none", exitStatus |-> "none", exitCode |-> "none"]

NoPty == [NewPty("hA", <<>>) EXCEPT !.created = FALSE]

\* the outcome of one synchronous run of pty code: the pty and the status
\* it passed to its statusCallback
Res(r, emit) == [r |-> r, emit |-> emit]

\* a Client slot no event can come from any more
FreeSlot(r, c) ==
  /\ r.cl[c].st \in {"none", "closed"}
  /\ r.cl[c].sh \in {"no", "done"}
  /\ r.client # c
  /\ r.stream # c
HasFreeSlot(r) == \E c \in ClientIds : FreeSlot(r, c)
NextSlot(r) == CHOOSE c \in ClientIds : FreeSlot(r, c) /\ \A d \in ClientIds : FreeSlot(r, d) => c <= d

\* SSHPseudoTerminal.teardownConnection
teardownConnection(r) ==
  LET r1 == [r EXCEPT !.openSshConnectedTimer = FALSE]
      r2 == IF r1.stream # 0
              THEN [r1 EXCEPT !.cl[r1.stream].sh = "done",
                              !.cl[r1.stream].nStreamClose = @ + 1, !.stream = 0]
              ELSE r1
      r3 == IF r2.client # 0
              THEN [r2 EXCEPT !.cl[r2.client].st = "closed",
                              !.cl[r2.client].nEnd = @ + 1, !.client = 0]
              ELSE r2
  IN  IF r3.nativeProcess # "null"
        THEN [r3 EXCEPT !.nativeProcess = "null",
                        !.nKill = IF r3.nativeProcess = "exited" THEN @ ELSE @ + 1]
        ELSE r3

\* cleanup without the isCleanedUp test
cleanup_NoGuard(r) ==
  teardownConnection([r EXCEPT !.isCleanedUp = TRUE])

\* SSHPseudoTerminal.cleanup
cleanup(r) ==
  IF r.isCleanedUp THEN r
  ELSE teardownConnection([r EXCEPT !.isCleanedUp = TRUE])

\* SSHPseudoTerminal.cleanupConnection
cleanupConnection(r) ==
  [teardownConnection(r) EXCEPT !.streamClosedGracefully = FALSE,
                                !.openSshMarkedConnected = FALSE]

\* SSHPseudoTerminal.shouldRetryAuthentication
shouldRetryAuthentication(r, kind) ==
  IF authMethod[r.host] # "password" \/ r.hasRetriedAuthentication
    THEN FALSE
    ELSE kind = "auth"

\* SSHPseudoTerminal.handleErrorAsync up to its first await (or to its end)
handleError(r, msg) ==
  IF r.isCleanedUp THEN Res(r, NoEmit)
  ELSE IF shouldRetryAuthentication(r, interpretConnectionError(msg))
    THEN Res([r EXCEPT !.hasRetriedAuthentication = TRUE, !.nDel = @ + 1], NoEmit)
  ELSE IF r.hasEverConnected /\ isNetworkError(msg)
    THEN Res([cleanupConnection(r) EXCEPT !.nReconn = @ + 1], ERROR)
  ELSE Res(cleanup([r EXCEPT !.closeFired = @ + 1]), ERROR)

\* this.client.connect(config), at the end of SSHPseudoTerminal.connect
clientConnect(r) ==
  IF r.client = 0
    THEN handleError(r, "generic")
    ELSE Res([r EXCEPT !.cl[r.client].st = "connecting"], NoEmit)

\* SSHPseudoTerminal.connect up to its first suspension.  cfg is what
\* buildSSHConfig meets: "ok", "throw", or "wait" (a prompt or a file read)
connect(r, cfg) ==
  LET r1 == [r EXCEPT !.streamClosedGracefully = FALSE,
                      !.openSshMarkedConnected = FALSE,
                      !.attempts = @ + 1, !.cycAttempts = @ + 1]
  IN  IF authMethod[r.host] = "openssh"
        THEN Res([r1 EXCEPT !.nativeProcess = "starting"], NoEmit)
      ELSE LET c == NextSlot(r1)
               r2 == [r1 EXCEPT !.client = c, !.cl[c] = [NoClient EXCEPT !.st = "new"]]
           IN  IF r2.passwordOverride /\ authMethod[r.host] = "password"
                 THEN clientConnect([r2 EXCEPT !.passwordOverride = FALSE])
               ELSE IF cfg = "wait" THEN Res([r2 EXCEPT !.nCfg = @ + 1], NoEmit)
               ELSE IF cfg = "throw" THEN handleError(r2, "generic")
               ELSE clientConnect(r2)

\* what buildSSHConfig can meet for a host, before any suspension
CfgOutcomes(h) ==
  CASE authMethod[h] = "password" -> IF stored[h] THEN {"ok"} ELSE {"wait"}
    [] authMethod[h] = "keyfile" -> {"wait", "throw"}
    [] authMethod[h] = "agent" -> {"ok", "throw"}
    [] OTHER -> {"ok"}

\* connect() may run: a Client slot is free and the attempt bound not reached
CanConnect(r) ==
  /\ r.attempts < limits.attempts
  /\ authMethod[r.host] # "openssh" => HasFreeSlot(r)

\* SSHPseudoTerminal.onClientReady
onClientReady(r) ==
  LET r1 == [r EXCEPT !.hasEverConnected = TRUE]
  IN  IF r1.client # 0 /\ r1.cl[r1.client].st = "ready"
        THEN Res([r1 EXCEPT !.cl[r1.client].sh = "req"], CONNECTED)
        ELSE Res(r1, CONNECTED)

\* how a shell stream or a child process can end: exit code 0, a non-zero
\* exit code, a terminating signal (the exit code is then null), or, for a
\* shell stream, no exit status at all (the code is undefined)
ExitCodes == {"0", "nonzero", "signal", "undefined"}

\* SSHPseudoTerminal.onStreamClose(code): the 'close' listener passes on the
\* code only; exitHow, exitStatus and exitCode record the way the stream
\* ended and the status and metadata.exitCode passed to updateStatus
onStreamClose(r, code) ==
  LET clean == code \in {"0", "undefined", "signal"}
      r1 == [r EXCEPT !.streamClosedGracefully = TRUE, !.closeFired = @ + 1,
                      !.exitHow = code,
                      !.exitStatus = IF clean THEN DISCONNECTED ELSE ERROR,
                      !.exitCode = IF clean THEN "0" ELSE "code"]
  IN  Res(cleanup(r1), IF clean THEN DISCONNECTED ELSE ERROR)

\* onClientClose without its two early returns
onClientClose_NoGuards(r) ==
  Res([cleanupConnection(r) EXCEPT !.nReconn = @ + 1], ERROR)

\* SSHPseudoTerminal.onClientClose
onClientClose(r) ==
  IF r.isCleanedUp THEN Res(r, NoEmit)
  ELSE IF r.streamClosedGracefully THEN Res(r, NoEmit)
  ELSE Res([cleanupConnection(r) EXCEPT !.nReconn = @ + 1], ERROR)

\* SSHPseudoTerminal.onOpenSshProcessClose(code, signal)
onOpenSshProcessClose(r, code) ==
  IF r.isCleanedUp THEN Res(r, NoEmit)
  ELSE LET clean == code = "0"
           r1 == [r EXCEPT !.streamClosedGracefully = TRUE,
                           !.nativeProcess = "null", !.closeFired = @ + 1,
                           !.exitHow = code,
                           !.exitStatus = IF clean THEN DISCONNECTED ELSE ERROR,
                           !.exitCode = IF clean THEN "0"
                                        ELSE IF code = "nonzero" THEN "code" ELSE "1"]
       IN  Res(cleanup(r1), IF clean THEN DISCONNECTED ELSE ERROR)

\* markOpenSshConnected without its test
markOpenSshConnected_NoGuard(r) ==
  Res([r EXCEPT !.openSshMarkedConnected = TRUE, !.hasEverConnected = TRUE,
                !.nMark = @ + 1],
      CONNECTED)

\* SSHPseudoTerminal.markOpenSshConnected; nMark counts its Connected reports
markOpenSshConnected(r) ==
  IF r.openSshMarkedConnected \/ r.isCleanedUp THEN Res(r, NoEmit)
  ELSE Res([r EXCEPT !.openSshMarkedConnected = TRUE, !.hasEverConnected = TRUE,
                     !.nMark = @ + 1],
           CONNECTED)

\* SSHPseudoTerminal.isStreamActive
isStreamActive(r) ==
  \/ r.stream # 0 /\ ~r.isCleanedUp
  \/ /\ r.nativeProcess # "null"
     /\ r.nativeProcess # "exited"
     /\ ~r.isCleanedUp

\* SSHPseudoTerminal.handleInput: the number of writes to the remote side
handleInput(r) ==
  IF r.stream # 0 THEN 1
  ELSE IF r.nativeProcess \in {"starting", "running"} THEN 1
  ELSE 0

(* ======================================================================= *)
(*  Actions of Spec: ConnectionManager                                     *)
(* ======================================================================= *)

\* lastBroadcast after any step other than broadcastCommand
NoBroadcast == [sent |-> 0 - 1, calls |-> <<>>, writes |-> <<>>]

(* ======================================================================= *)
(*  WorkspaceSessionManager                                                *)
(* ======================================================================= *)

\* the workspaces (panels) sessions are opened in
Workspaces == {"w1", "w2"}

\* the sessionId connectHost builds for its pseudoterminal p:
\* workspace-<host.id>-<Date.now()>-<random>; p stands for the time and the
\* random part, which are taken never to repeat
sessionId(h, p) == <<"workspace", h, p>>

\* the pseudoterminal's statusCallback is WorkspaceSessionManager's
IsWorkspaceSession(id) == Len(id) = 3

\* snapshot.lastError: unset, the metadata.error the pseudoterminal passed
\* with a status, or the text of the onDidClose listener
NoError == "undefined"
EngineError == "metadata.error"
TerminatedError == "Session terminated unexpectedly"

\* lastInput after any step other than broadcastInput
NoInput == [sent |-> 0 - 1, workspaceId |-> "", source |-> <<>>,
            calls |-> <<>>, writes |-> <<>>]

\* a WorkspaceSessionEvent
WsEvent(type, sid, status, lastError) ==
  [type |-> type, sid |-> sid, status |-> status, lastError |-> lastError]

\* the manager before a step: its sessions, the history of 'added' and
\* 'removed' events, and the events fired by the step so far
WsNow == [sessions |-> sessions, wevents |-> wevents, events |-> <<>>]

\* updateSessionStatus firing 'updated' for a session it does not hold
updateSessionStatus_NoPoolTest(W, sid, status, error) ==
  [W EXCEPT !.events = Append(@, WsEvent("updated", sid, status, error))]

\* WorkspaceSessionManager.updateSessionStatus(sessionId, status, metadata)
updateSessionStatus(W, sid, status, error) ==
  IF sid \notin DOMAIN W.sessions THEN W
  ELSE LET snap == W.sessions[sid]
           lastError == IF error # NoError THEN error
                        ELSE IF status \in {CONNECTED, DISCONNECTED} THEN NoError
                        ELSE snap.lastError
           snap2 == [snap EXCEPT !.status = status, !.lastError = lastError]
       IN  [W EXCEPT !.sessions = Put(W.sessions, sid, snap2),
                     !.events = Append(@, WsEvent("updated", sid, status, lastError))]

\* WorkspaceSessionManager.appendOutput(sessionId, rawChunk)
appendOutput(W, sid) ==
  IF sid \notin DOMAIN W.sessions THEN W
  ELSE [W EXCEPT !.events =
          Append(@, WsEvent("output", sid, W.sessions[sid].status, NoError))]

\* WorkspaceSessionManager.removeSession(sessionId, closePty), but for the
\* pty.close() call of closePty
removeSession(W, sid) ==
  IF sid \notin DOMAIN W.sessions THEN W
  ELSE [W EXCEPT !.sessions = Del(W.sessions, sid),
                 !.wevents[sid].removed = @ + 1,
                 !.events = Append(@, WsEvent("removed", sid, "", NoError))]

\* the onDidClose listener connectHost subscribes, with the exit code fired
onDidClose(W, sid, exitCode) ==
  IF exitCode = 0 THEN removeSession(W, sid)
  ELSE updateSessionStatus(W, sid, ERROR, TerminatedError)

\* the code closeEmitter fires in a run of pty code that fires it: 0 beside
\* the Disconnected report of a clean exit, 1 everywhere else
closeCode(res) == IF res.emit = DISCONNECTED THEN 0 ELSE 1

\* what a run of code of a pseudoterminal, r before it, does to manager W: the
\* statusCallback, then the onDidClose listener unless removeSession has
\* disposed it
wsCallbacks(W, r, res) ==
  LET sid == r.tid
      W1 == IF res.emit = NoEmit THEN W
            ELSE updateSessionStatus(W, sid, res.emit,
                                     IF res.emit = ERROR THEN EngineError ELSE NoError)
      W2 == IF res.r.closeFired > r.closeFired /\ sid \in DOMAIN W1.sessions
              THEN onDidClose(W1, sid, closeCode(res))
              ELSE W1
  IN  W2

\* one synchronous run of code of pseudoterminal p with outcome res: the
\* status goes to the statusCallback the pseudoterminal was constructed with
PtyStep(p, res) ==
  /\ pty' = [pty EXCEPT ![p] = res.r]
  /\ IF IsWorkspaceSession(pty[p].tid)
       THEN /\ sessions' = wsCallbacks(WsNow, pty[p], res).sessions
            /\ wevents' = wsCallbacks(WsNow, pty[p], res).wevents
            /\ wlast' = wsCallbacks(WsNow, pty[p], res).events
            /\ lastInput' = NoInput
            /\ UNCHANGED <<terminalStatuses, states>>
       ELSE /\ updateStatus(p, res.emit)
            /\ UNCHANGED wsVars

\* ConnectionManager.connect(host)
Connect(h) ==
  /\ nPty < limits.sessions
  /\ h \in limits.hosts
  /\ \E t \in {now, now + 1} :
       /\ t <= limits.clock
       /\ now' = t
       /\ LET id == <<h, t>>
              p == nPty + 1
          IN  /\ pty' = [pty EXCEPT ![p] = NewPty(h, id)]
              /\ nPty' = p
              /\ terminals' = Put(terminals, id, p)
              /\ terminalsByHost' = addTerminal(terminalsByHost, h, id)
              /\ terminalStatuses' = Put(terminalStatuses, id, DISCONNECTED)
              /\ states' = [states EXCEPT ![h] =
                   recomputeHostState(terminalsByHost', terminalStatuses', h)]
  /\ lastBroadcast' = NoBroadcast
  /\ UNCHANGED <<authMethod, stored, broadcastHostIds, broadcastActive, limits, healthVars, decVars, wsVars, cfgVars>>

\* TerminalManager.getTerminalId(terminal): 0 when the terminal is not tracked
getTerminalId(p) ==
  IF \E id \in DOMAIN terminals : terminals[id] = p THEN pty[p].tid ELSE <<>>

\* handleTerminalClose without the recomputeHostState call
HandleTerminalClose_NoRecompute(p) ==
  /\ pty[p].created /\ ~pty[p].termClosed
  /\ pty' = [pty EXCEPT ![p].termClosed = TRUE]
  /\ LET id == getTerminalId(p)
         h == pty[p].host
     IN  IF id # <<>>
           THEN /\ terminalStatuses' = Del(terminalStatuses, id)
                /\ terminals' = Del(terminals, id)
                /\ terminalsByHost' = removeTerminal(terminalsByHost, h, id)
                /\ UNCHANGED states
           ELSE UNCHANGED <<terminalStatuses, terminals, terminalsByHost, states>>
  /\ lastBroadcast' = NoBroadcast
  /\ UNCHANGED <<now, authMethod, stored, nPty, broadcastHostIds, broadcastActive, limits, healthVars, decVars, wsVars, cfgVars>>

\* handleTerminalClose that also drops a host without sessions from the
\* broadcast scope
HandleTerminalClose_DropsScope(p) ==
  /\ pty[p].created /\ ~pty[p].termClosed
  /\ pty' = [pty EXCEPT ![p].termClosed = TRUE]
  /\ LET id == getTerminalId(p)
         h == pty[p].host
     IN  IF id # <<>>
           THEN /\ terminalStatuses' = Del(terminalStatuses, id)
                /\ terminals' = Del(terminals, id)
                /\ terminalsByHost' = removeTerminal(terminalsByHost, h, id)
                /\ states' = [states EXCEPT ![h] =
                     recomputeHostState(terminalsByHost', terminalStatuses', h)]
                /\ broadcastHostIds' =
                     IF getTerminalIdsByHost(terminalsByHost', h) = <<>>
                       THEN broadcastHostIds \ {h} ELSE broadcastHostIds
           ELSE UNCHANGED <<terminalStatuses, terminals, terminalsByHost, states,
                            broadcastHostIds>>
  /\ lastBroadcast' = NoBroadcast
  /\ UNCHANGED <<now, authMethod, stored, nPty, broadcastActive, limits, healthVars, decVars, wsVars, cfgVars>>

\* ConnectionManager.handleTerminalClose(terminal), on onDidCloseTerminal: the
\* terminal was closed by the operator, by ConnectionManager.disconnect, or
\* by VS Code after the pty's closeEmitter fired
HandleTerminalClose(p) ==
  /\ pty[p].created /\ ~pty[p].termClosed
  /\ pty' = [pty EXCEPT ![p].termClosed = TRUE]
  /\ LET id == getTerminalId(p)
         h == pty[p].host
     IN  IF id # <<>>
           THEN /\ terminalStatuses' = Del(terminalStatuses, id)
                /\ terminals' = Del(terminals, id)
                /\ terminalsByHost' = removeTerminal(terminalsByHost, h, id)
                /\ states' = [states EXCEPT ![h] =
                     recomputeHostState(terminalsByHost', terminalStatuses', h)]
           ELSE UNCHANGED <<terminalStatuses, terminals, terminalsByHost, states>>
  /\ lastBroadcast' = NoBroadcast
  /\ UNCHANGED <<now, authMethod, stored, nPty, broadcastHostIds, broadcastActive, limits, healthVars, decVars, wsVars, cfgVars>>

\* ConnectionManager.startBroadcast(hostIds)
StartBroadcast(S) ==
  /\ S \subseteq limits.hosts
  /\ broadcastHostIds' = S
  /\ broadcastActive' = (Cardinality(S) > 0)
  /\ lastBroadcast' = NoBroadcast
  /\ UNCHANGED <<now, authMethod, stored, nPty, pty, terminals, terminalsByHost,
                 terminalStatuses, states, limits, healthVars, decVars, wsVars, cfgVars>>

\* ConnectionManager.stopBroadcast
StopBroadcast ==
  /\ broadcastHostIds' = {}
  /\ broadcastActive' = FALSE
  /\ lastBroadcast' = NoBroadcast
  /\ UNCHANGED <<now, authMethod, stored, nPty, pty, terminals, terminalsByHost,
                 terminalStatuses, states, limits, healthVars, decVars, wsVars, cfgVars>>

\* TerminalManager.getTerminalInfosByHost(h), as the ptys of the infos
getTerminalInfosByHost(h) ==
  LET ids == getTerminalIdsByHost(terminalsByHost, h)
  IN  SelectSeq([i \in 1..Len(ids) |->
                   IF ids[i] \in DOMAIN terminals THEN terminals[ids[i]] ELSE 0],
                LAMBDA q : q # 0)

\* occurrences of pty q among the infos of the hosts in S
InfoCount(S, q) ==
  LET n == [h \in Hosts |->
              Cardinality({i \in 1..Len(getTerminalInfosByHost(h)) :
                             getTerminalInfosByHost(h)[i] = q})]
  IN  SumOver(n, S)

\* broadcastCommand without the scope: every tracked session is addressed
broadcastCommand_AllHosts ==
  LET calls == [q \in PtyIds |->
                  IF pty[q].created /\ isStreamActive(pty[q])
                    THEN InfoCount(Hosts, q) ELSE 0]
  IN  [sent |-> SumOver(calls, PtyIds),
       calls |-> calls,
       writes |-> [q \in PtyIds |-> calls[q] * handleInput(pty[q])]]

\* ConnectionManager.broadcastCommand(command): per pty the handleInput calls
\* made and the writes that reached the remote side, and the sent count
broadcastCommand ==
  LET scope == IF ~broadcastActive \/ Cardinality(broadcastHostIds) = 0
                 THEN {} ELSE broadcastHostIds
      calls == [q \in PtyIds |->
                  IF pty[q].created /\ isStreamActive(pty[q])
                    THEN InfoCount(scope, q) ELSE 0]
  IN  [sent |-> SumOver(calls, PtyIds),
       calls |-> calls,
       writes |-> [q \in PtyIds |-> calls[q] * handleInput(pty[q])]]

BroadcastCommand ==
  /\ lastBroadcast' = broadcastCommand
  /\ UNCHANGED <<now, authMethod, stored, nPty, pty, terminals, terminalsByHost,
                 terminalStatuses, states, broadcastHostIds, broadcastActive, limits, healthVars, decVars, wsVars, cfgVars>>

(* ======================================================================= *)
(*  Actions of Spec: SSHPseudoTerminal, its transports and its prompts     *)
(* ======================================================================= *)

mgrFrame ==
  /\ lastBroadcast' = NoBroadcast
  /\ UNCHANGED <<now, authMethod, nPty, terminals, terminalsByHost,
                 broadcastHostIds, broadcastActive, limits, healthVars, decVars,
                 cfgVars>>

\* SSHPseudoTerminal.open -> connect
PtyOpen(p) ==
  /\ pty[p].created /\ pty[p].attempts = 0
  /\ ~pty[p].closeCalled /\ ~pty[p].termClosed
  /\ \E cfg \in CfgOutcomes(pty[p].host) : PtyStep(p, connect(pty[p], cfg))
  /\ UNCHANGED stored
  /\ mgrFrame

\* SSHPseudoTerminal.close, called by VS Code when the terminal goes away
PtyClose(p) ==
  /\ pty[p].created
  /\ PtyStep(p, Res(cleanup([pty[p] EXCEPT !.closeCalled = TRUE]), NoEmit))
  /\ UNCHANGED stored
  /\ mgrFrame

\* connect resumes after buildSSHConfig: the password prompt of getPassword
\* is answered (entered or cancelled, saved or not), or the key file is read
CfgResume(p, entered, save) ==
  /\ pty[p].created /\ pty[p].nCfg > 0
  /\ authMethod[pty[p].host] # "password" => ~save
  /\ LET r == [pty[p] EXCEPT !.nCfg = @ - 1]
     IN  /\ PtyStep(p, IF entered THEN clientConnect(r) ELSE handleError(r, "generic"))
         /\ stored' = IF entered /\ save
                        THEN [stored EXCEPT ![r.host] = TRUE] ELSE stored
  /\ mgrFrame

\* ssh2 Client c emits 'ready'
ClientReady(p, c) ==
  /\ pty[p].created /\ pty[p].cl[c].st = "connecting"
  /\ PtyStep(p, onClientReady([pty[p] EXCEPT !.cl[c].st = "ready"]))
  /\ UNCHANGED stored
  /\ mgrFrame

\* messages a Client can fail with before and after its handshake
ClientErrMsgs(st) ==
  IF st = "connecting" THEN ErrMsgs
  ELSE {"etimedout", "econnreset", "ehostunreach", "generic"}

\* ssh2 Client c emits 'error'
ClientError(p, c, msg) ==
  /\ pty[p].created /\ pty[p].cl[c].st \in {"connecting", "ready"}
  /\ msg \in ClientErrMsgs(pty[p].cl[c].st)
  /\ LET r == [pty[p] EXCEPT !.cl[c].st = "errored",
                  !.cycAuthFails =
                     IF msg = "auth" /\ authMethod[pty[p].host] = "password"
                       THEN @ + 1 ELSE @]
     IN  PtyStep(p, handleError(r, msg))
  /\ UNCHANGED stored
  /\ mgrFrame

\* ssh2 Client c emits 'close'
ClientClose(p, c) ==
  /\ pty[p].created /\ pty[p].cl[c].st \in {"connecting", "ready", "errored"}
  /\ PtyStep(p, onClientClose([pty[p] EXCEPT !.cl[c].st = "closed"]))
  /\ UNCHANGED stored
  /\ mgrFrame

\* the callback of client.shell runs, with a stream or with an error
ShellCallback(p, c, ok) ==
  /\ pty[p].created /\ pty[p].cl[c].sh = "req"
  /\ ok => pty[p].cl[c].st = "ready"
  /\ PtyStep(p, IF ok
                  THEN Res([pty[p] EXCEPT !.cl[c].sh = "open", !.stream = c], NoEmit)
                  ELSE handleError([pty[p] EXCEPT !.cl[c].sh = "done"], "generic"))
  /\ UNCHANGED stored
  /\ mgrFrame

\* the shell stream of Client c emits 'close'
StreamClose(p, c, code) ==
  /\ pty[p].created /\ pty[p].cl[c].sh = "open"
  /\ code \in limits.codes
  /\ PtyStep(p, onStreamClose([pty[p] EXCEPT !.cl[c].sh = "done"], code))
  /\ UNCHANGED stored
  /\ mgrFrame

\* handleErrorAsync resumes after `await deletePassword`, up to the prompt
\* of getPassword
DelResume(p) ==
  /\ pty[p].created /\ pty[p].nDel > 0
  /\ stored' = [stored EXCEPT ![pty[p].host] = FALSE]
  /\ LET r == teardownConnection([pty[p] EXCEPT !.nDel = @ - 1])
     IN  PtyStep(p, Res([r EXCEPT !.streamClosedGracefully = FALSE,
                                  !.nRetryPrompt = @ + 1], NoEmit))
  /\ mgrFrame

\* handleErrorAsync resumes after the replacement-password prompt
RetryPromptAnswer(p, entered, save) ==
  /\ pty[p].created /\ pty[p].nRetryPrompt > 0
  /\ entered => CanConnect(pty[p])
  /\ ~entered => ~save
  /\ LET r == [pty[p] EXCEPT !.nRetryPrompt = @ - 1]
     IN  PtyStep(p, IF entered
                      THEN connect([r EXCEPT !.passwordOverride = TRUE], "ok")
                      ELSE Res(cleanup([r EXCEPT !.closeFired = @ + 1]), ERROR))
  /\ stored' = IF save THEN [stored EXCEPT ![pty[p].host] = TRUE] ELSE stored
  /\ mgrFrame

\* promptReconnect resumes: the operator chose Reconnect, or anything else
ReconnectAnswer(p, reconnect) ==
  /\ pty[p].created /\ pty[p].nReconn > 0
  /\ reconnect => CanConnect(pty[p])
  /\ LET r == [pty[p] EXCEPT !.nReconn = @ - 1]
     IN  IF reconnect
           THEN \E cfg \in CfgOutcomes(r.host) :
                  PtyStep(p, connect([r EXCEPT !.hasRetriedAuthentication = FALSE,
                                               !.cycAttempts = 0, !.cycAuthFails = 0],
                                     cfg))
           ELSE PtyStep(p, Res(cleanup([r EXCEPT !.closeFired = @ + 1]), NoEmit))
  /\ UNCHANGED stored
  /\ mgrFrame

\* the ssh child process emits 'spawn': the 600 ms timer is armed
NativeSpawn(p) ==
  /\ pty[p].created /\ pty[p].nativeProcess = "starting"
  /\ PtyStep(p, Res([pty[p] EXCEPT !.nativeProcess = "running",
                                   !.openSshConnectedTimer = TRUE], NoEmit))
  /\ UNCHANGED stored
  /\ mgrFrame

\* the 600 ms timer fires
NativeTimer(p) ==
  /\ pty[p].created /\ pty[p].openSshConnectedTimer
  /\ PtyStep(p, markOpenSshConnected([pty[p] EXCEPT !.openSshConnectedTimer = FALSE]))
  /\ UNCHANGED stored
  /\ mgrFrame

\* stdout or stderr of the ssh child process emits 'data'
NativeData(p) ==
  /\ pty[p].created /\ pty[p].nativeProcess \in {"running", "exited"}
  /\ PtyStep(p, markOpenSshConnected(pty[p]))
  /\ UNCHANGED stored
  /\ mgrFrame

\* the ssh child process emits 'error' (it could not be spawned)
NativeError(p) ==
  /\ pty[p].created /\ pty[p].nativeProcess = "starting"
  /\ PtyStep(p, handleError([pty[p] EXCEPT !.openSshConnectedTimer = FALSE], "generic"))
  /\ UNCHANGED stored
  /\ mgrFrame

\* the ssh child process exits: exitCode is set, 'close' not yet emitted
NativeExit(p) ==
  /\ pty[p].created /\ pty[p].nativeProcess = "running"
  /\ PtyStep(p, Res([pty[p] EXCEPT !.nativeProcess = "exited"], NoEmit))
  /\ UNCHANGED stored
  /\ mgrFrame

\* the ssh child process emits 'close'
NativeClose(p, code) ==
  /\ pty[p].created /\ pty[p].nativeProcess = "exited"
  /\ code \in limits.codes \ {"undefined"}
  /\ PtyStep(p, onOpenSshProcessClose([pty[p] EXCEPT !.openSshConnectedTimer = FALSE],
                                      code))
  /\ UNCHANGED stored
  /\ mgrFrame

(* ======================================================================= *)
(*  Spec                                                                   *)
(* ======================================================================= *)

\* host configurations the session engine is run against
AuthConfigs ==
  {[h \in Hosts |-> IF h = "hA" THEN "password" ELSE "openssh"]}
PtyAuthConfigs == {[h \in Hosts |-> m] : m \in AuthMethods}

(* ======================================================================= *)
(*  The output decoders of SSHPseudoTerminal (StringDecoder('utf8'))       *)
(* ======================================================================= *)

\* the output channels of a connection, each with a decoder of its own
Channels == {"stdout", "stderr"}

\* the bytes of a chunk, by their role in UTF-8: an ASCII byte, a
\* continuation byte, the lead byte of a 2-, 3- or 4-byte character
Bytes == {"A", "C", "L2", "L3", "L4"}

\* the length of the character a lead byte announces (0: not a lead byte)
Need(b) == CASE b = "L2" -> 2 [] b = "L3" -> 3 [] b = "L4" -> 4 [] OTHER -> 0

\* the decoded character a lead byte and its continuation bytes make
CharOf(b) == CASE b = "L2" -> "u2" [] b = "L3" -> "u3" [] OTHER -> "u4"

Min(a, b) == IF a <= b THEN a ELSE b
Take(s, n) == SubSeq(s, 1, n)
Drop(s, n) == SubSeq(s, n + 1, Len(s))

\* the byte sequences of at most n bytes
RECURSIVE BytesUpTo(_)
BytesUpTo(n) ==
  IF n = 0 THEN {<<>>}
  ELSE BytesUpTo(n - 1) \cup [1..n -> Bytes]

\* the number of continuation bytes s starts with, counting at most n
RECURSIVE Conts(_, _)
Conts(s, n) ==
  IF n = 0 \/ s = <<>> \/ Head(s) # "C" THEN 0
  ELSE 1 + Conts(Tail(s), n - 1)

\* Buffer.toString('utf8'): a complete character decodes to itself, a stray
\* continuation byte and a truncated character to U+FFFD ("?")
RECURSIVE toString(_)
toString(s) ==
  IF s = <<>> THEN <<>>
  ELSE LET b == Head(s)
           k == Conts(Tail(s), Need(b) - 1)
       IN IF b = "A" THEN <<"a">> \o toString(Tail(s))
          ELSE IF b = "C" THEN <<"?">> \o toString(Tail(s))
          ELSE IF k = Need(b) - 1 THEN <<CharOf(b)>> \o toString(Drop(s, 1 + k))
          ELSE <<"?">> \o toString(Drop(s, 1 + k))

\* new StringDecoder('utf8'): no buffered bytes, none missing
NewDecoder == [lastChar |-> <<>>, lastNeed |-> 0]

\* the bytes at the end of data that begin a character not yet complete
\* (n of them, need more to come), scanning back from byte i with b seen
RECURSIVE Incomplete(_, _, _)
Incomplete(data, i, b) ==
  IF data[i] = "C"
    THEN IF b + 1 >= 4 \/ i = 1 THEN [n |-> 0, need |-> 0]
         ELSE Incomplete(data, i - 1, b + 1)
    ELSE IF b + 1 >= Need(data[i]) THEN [n |-> 0, need |-> 0]
         ELSE [n |-> b + 1, need |-> Need(data[i]) - (b + 1)]

\* StringDecoder.write without the buffer of incomplete characters
write_NoBuffer(d, data) == [d |-> d, out |-> toString(data)]

\* StringDecoder.write: the buffered character is completed first (or given
\* up at a byte that does not continue it), then data is decoded up to the
\* last character, which is buffered if it is incomplete
write(d, data) ==
  LET lim == Min(Len(data), d.lastNeed)
      i == Conts(data, lim)
      buf == d.lastChar \o Take(data, i)
      need == IF i < lim THEN 0 ELSE d.lastNeed - i
      rest == Drop(data, i)
      completed == d.lastNeed > 0 /\ need = 0
      prepend == IF completed THEN toString(buf) ELSE <<>>
      tail == IF rest = <<>> \/ rest[Len(rest)] = "A" THEN [n |-> 0, need |-> 0]
              ELSE Incomplete(rest, Len(rest), 0)
  IN IF need > 0
       THEN [d |-> [lastChar |-> buf, lastNeed |-> need], out |-> <<>>]
       ELSE [d |-> [lastChar |-> Drop(rest, Len(rest) - tail.n), lastNeed |-> tail.need],
             out |-> prepend \o toString(Take(rest, Len(rest) - tail.n))]

\* StringDecoder.end: an incomplete character left in the buffer is emitted
\* as U+FFFD
end(d) ==
  [d |-> NewDecoder, out |-> IF d.lastNeed > 0 THEN <<"?">> ELSE <<>>]

\* SSHPseudoTerminal.emitDecodedChunk on the decoder of channel ch
emitDecodedChunk(decs, out, ch, data) ==
  LET w == write(decs[ch], data)
  IN [decoders |-> [decs EXCEPT ![ch] = w.d],
      emitted |-> [out EXCEPT ![ch] = @ \o w.out]]

\* SSHPseudoTerminal.flushDecoder on the decoder of channel ch
flushDecoder(decs, out, ch) ==
  LET e == end(decs[ch])
  IN [decoders |-> [decs EXCEPT ![ch] = e.d],
      emitted |-> [out EXCEPT ![ch] = @ \o e.out]]

\* no output is being decoded
InitDecodersIdle ==
  /\ chunkInput = [ch \in Channels |-> <<>>]
  /\ chunks = [ch \in Channels |-> <<>>]
  /\ decoders = [ch \in Channels |-> NewDecoder]
  /\ emitted = [ch \in Channels |-> <<>>]
  /\ flushed = TRUE

\* an empty configuration, as loadConfig returns it on a new installation
InitConfigIdle ==
  /\ nodes = <<>>
  /\ objs = <<>>
  /\ deleting = <<>>

\* no workspace session was ever opened
InitWorkspaceIdle ==
  /\ sessions = <<>>
  /\ wevents = <<>>
  /\ wlast = <<>>
  /\ lastInput = NoInput

InitHealthIdle ==
  /\ enabled = TRUE
  /\ visible = {}
  /\ hstates = <<>>
  /\ activeChecks = {}
  /\ intervalHandle = FALSE
  /\ runningCheckAll = FALSE
  /\ disposed = FALSE
  /\ started = FALSE
  /\ probes = <<>>
  /\ pendingAll = {}
  /\ hlast = NoStep

InitConn ==
  /\ now = 0
  /\ nPty = 0
  /\ pty = [p \in PtyIds |-> NoPty]
  /\ terminals = <<>>
  /\ terminalsByHost = <<>>
  /\ terminalStatuses = <<>>
  /\ states = [h \in Hosts |-> NoState]
  /\ broadcastHostIds = {}
  /\ broadcastActive = FALSE
  /\ lastBroadcast = NoBroadcast

\* several sessions on two hosts, each making one connection attempt
Init ==
  /\ InitConn
  /\ authMethod \in AuthConfigs
  /\ stored = [h \in Hosts |-> FALSE]
  /\ limits = [sessions |-> MaxSessions, attempts |-> 1, hosts |-> Hosts,
               clock |-> MaxNow, codes |-> {"0", "nonzero"}]
  /\ InitHealthIdle
  /\ InitDecodersIdle
  /\ InitWorkspaceIdle
  /\ InitConfigIdle

\* one session of any authentication method, with retries and reconnects
InitPty ==
  /\ InitConn
  /\ authMethod \in PtyAuthConfigs
  /\ stored \in {[h \in Hosts |-> b /\ h = "hA"] : b \in BOOLEAN}
  /\ limits = [sessions |-> 1, attempts |-> MaxAttempts, hosts |-> {"hA"},
               clock |-> 0, codes |-> ExitCodes]
  /\ InitHealthIdle
  /\ InitDecodersIdle
  /\ InitWorkspaceIdle
  /\ InitConfigIdle

\* the operator's broadcast commands
NextBroadcast ==
  \/ \E S \in SUBSET Hosts : StartBroadcast(S)
  \/ StopBroadcast
  \/ BroadcastCommand

\* the steps of a session whose connection needs a prompt or a file read
NextPrompted ==
  \/ \E p \in PtyIds, entered \in BOOLEAN, save \in BOOLEAN : CfgResume(p, entered, save)
  \/ \E p \in PtyIds : DelResume(p)
  \/ \E p \in PtyIds, entered \in BOOLEAN, save \in BOOLEAN : RetryPromptAnswer(p, entered, save)

NextSession ==
  \/ \E h \in Hosts : Connect(h)
  \/ \E p \in PtyIds : HandleTerminalClose(p)
  \/ \E p \in PtyIds : PtyOpen(p)
  \/ \E p \in PtyIds : PtyClose(p)
  \/ \E p \in PtyIds, c \in ClientIds : ClientReady(p, c)
  \/ \E p \in PtyIds, c \in ClientIds, msg \in ErrMsgs : ClientError(p, c, msg)
  \/ \E p \in PtyIds, c \in ClientIds : ClientClose(p, c)
  \/ \E p \in PtyIds, c \in ClientIds, ok \in BOOLEAN : ShellCallback(p, c, ok)
  \/ \E p \in PtyIds, c \in ClientIds, code \in ExitCodes : StreamClose(p, c, code)
  \/ \E p \in PtyIds, reconnect \in BOOLEAN : ReconnectAnswer(p, reconnect)
  \/ \E p \in PtyIds : NativeSpawn(p)
  \/ \E p \in PtyIds : NativeTimer(p)
  \/ \E p \in PtyIds : NativeData(p)
  \/ \E p \in PtyIds : NativeError(p)
  \/ \E p \in PtyIds : NativeExit(p)
  \/ \E p \in PtyIds, code \in ExitCodes : NativeClose(p, code)

Next ==
  \/ NextSession
  \/ NextPrompted

Spec == Init /\ [][Next]_vars

\* sessions on an agent host and an OpenSSH-config host, with the operator
\* also using broadcast; no step of NextPrompted is ever enabled for them
InitBroadcast ==
  /\ InitConn
  /\ authMethod = [h \in Hosts |-> IF h = "hA" THEN "agent" ELSE "openssh"]
  /\ stored = [h \in Hosts |-> FALSE]
  /\ limits = [sessions |-> MaxSessions, attempts |-> 1, hosts |-> Hosts,
               clock |-> MaxNow, codes |-> {"0", "nonzero"}]
  /\ InitHealthIdle
  /\ InitDecodersIdle
  /\ InitWorkspaceIdle
  /\ InitConfigIdle

NextWithBroadcast ==
  \/ NextSession
  \/ NextBroadcast

SpecBroadcast == InitBroadcast /\ [][NextWithBroadcast]_vars

SpecPty == InitPty /\ [][Next]_vars

(* ======================================================================= *)
(*  HealthCheckManager                                                     *)
(* ======================================================================= *)

UNKNOWN == "unknown"
CHECKING == "checking"
HEALTHY == "healthy"
UNHEALTHY == "unhealthy"

\* error messages a probe rejects with, by the class of their text
ProbeErrMsgs == {"timeout", "ECONNREFUSED", "ENOTFOUND", "EHOSTUNREACH", "other"}

\* HealthCheckManager.normalizeHealthError
normalizeHealthError(msg) ==
  CASE msg = "ENOTFOUND" -> "DNS lookup failed"
    [] msg = "timeout" -> "Health check timed out"
    [] msg = "ECONNREFUSED" -> "SSH port closed/refused"
    [] msg = "EHOSTUNREACH" -> "Host/network unreachable"
    [] OTHER -> "Unhealthy"

\* the HealthCheckManager fields one handler reads and writes, with the
\* notifications it fired (a host id, or "all" for fire(undefined)) and the
\* hosts it opened a socket to
HealthNow ==
  [states |-> hstates, active |-> activeChecks, interval |-> intervalHandle,
   running |-> runningCheckAll, probes |-> probes, pending |-> pendingAll,
   notes |-> <<>>, started |-> {}]

\* previous?.consecutiveFailures ?? 0
PreviousFailures(st, h) == IF h \in DOMAIN st THEN st[h].consecutiveFailures ELSE 0

\* checkHost without the activeChecks test
checkHost_NoSingleFlight(H, h, inAll) ==
  IF disposed THEN H
  ELSE LET prev == IF h \in DOMAIN H.states
                     THEN H.states[h]
                     ELSE [status |-> UNKNOWN, checkedAt |-> FALSE, latencyMs |-> FALSE,
                           error |-> "none", consecutiveFailures |-> 0]
       IN  [H EXCEPT
              !.active = @ \cup {h},
              !.states = Put(@, h, [prev EXCEPT !.status = CHECKING]),
              !.notes = Append(@, h),
              !.started = @ \cup {h},
              !.pending = IF inAll THEN @ \cup {h} ELSE @,
              !.probes = Append(@, [host |-> h,
                                    previousFailures |-> PreviousFailures(H.states, h),
                                    inAll |-> inAll])]

\* checkHost that starts from an empty state instead of the previous one
checkHost_ForgetsPrevious(H, h, inAll) ==
  IF h \in H.active \/ disposed THEN H
  ELSE [H EXCEPT
          !.active = @ \cup {h},
          !.states = Put(@, h, [status |-> CHECKING, checkedAt |-> FALSE,
                                latencyMs |-> FALSE, error |-> "none",
                                consecutiveFailures |-> 0]),
          !.notes = Append(@, h),
          !.started = @ \cup {h},
          !.pending = IF inAll THEN @ \cup {h} ELSE @,
          !.probes = Append(@, [host |-> h,
                                previousFailures |-> PreviousFailures(H.states, h),
                                inAll |-> inAll])]

\* HealthCheckManager.checkHost up to `await this.probeTcp(...)`
checkHost(H, h, inAll) ==
  IF h \in H.active \/ disposed THEN H
  ELSE LET prev == IF h \in DOMAIN H.states
                     THEN H.states[h]
                     ELSE [status |-> UNKNOWN, checkedAt |-> FALSE, latencyMs |-> FALSE,
                           error |-> "none", consecutiveFailures |-> 0]
       IN  [H EXCEPT
              !.active = @ \cup {h},
              !.states = Put(@, h, [prev EXCEPT !.status = CHECKING]),
              !.notes = Append(@, h),
              !.started = @ \cup {h},
              !.pending = IF inAll THEN @ \cup {h} ELSE @,
              !.probes = Append(@, [host |-> h,
                                    previousFailures |-> PreviousFailures(H.states, h),
                                    inAll |-> inAll])]

\* `for (const host of hosts) await this.checkHost(host)`: the round is
\* suspended at the first host's probe
checkHosts_Sequential(H, S, inAll) ==
  IF S = {} THEN H
  ELSE checkHost(H, CHOOSE x \in S : TRUE, inAll)

RECURSIVE checkHosts(_, _, _)
\* hosts.map(host => this.checkHost(host))
checkHosts(H, S, inAll) ==
  IF S = {} THEN H
  ELSE LET h == CHOOSE x \in S : TRUE
       IN  checkHosts(checkHost(H, h, inAll), S \ {h}, inAll)

\* checkAllNow after `await Promise.allSettled(...)`
checkAllSettled(H) ==
  [H EXCEPT !.notes = Append(@, "all"), !.running = FALSE]

\* checkAllNow without the runningCheckAll test
checkAllNow_Reentrant(H) ==
  IF disposed \/ ~enabled' THEN H
  ELSE LET H1 == [H EXCEPT !.running = TRUE,
                           !.states = [h \in (DOMAIN @) \cap visible' |-> @[h]]]
           H2 == checkHosts(H1, visible', TRUE)
       IN  IF H2.pending = {} THEN checkAllSettled(H2) ELSE H2

\* HealthCheckManager.checkAllNow, up to its await or, when it started no
\* probe, to its end
checkAllNow(H) ==
  IF H.running \/ disposed \/ ~enabled' THEN H
  ELSE LET H1 == [H EXCEPT !.running = TRUE,
                           !.states = [h \in (DOMAIN @) \cap visible' |-> @[h]]]
           H2 == checkHosts(H1, visible', TRUE)
       IN  IF H2.pending = {} THEN checkAllSettled(H2) ELSE H2

\* HealthCheckManager.restartScheduler
restartScheduler(H) ==
  LET H1 == [H EXCEPT !.interval = FALSE]
  IN  IF ~enabled'
        THEN IF DOMAIN H1.states # {}
               THEN [H1 EXCEPT !.states = <<>>, !.notes = Append(@, "all")]
               ELSE H1
        ELSE [H1 EXCEPT !.interval = TRUE]

\* settle with a failure recorded as the first one
settle_NoIncrement(H, i, msg) ==
  LET pr == H.probes[i]
      h == pr.host
      st == IF msg = "ok"
              THEN [status |-> HEALTHY, checkedAt |-> TRUE, latencyMs |-> TRUE,
                    error |-> "none", consecutiveFailures |-> 0]
              ELSE [status |-> UNHEALTHY, checkedAt |-> TRUE, latencyMs |-> FALSE,
                    error |-> normalizeHealthError(msg),
                    consecutiveFailures |-> 1]
      H1 == [H EXCEPT
               !.probes = SubSeq(@, 1, i - 1) \o SubSeq(@, i + 1, Len(@)),
               !.states = Put(@, h, st),
               !.active = @ \ {h},
               !.notes = IF disposed THEN @ ELSE Append(@, h),
               !.pending = IF pr.inAll THEN @ \ {h} ELSE @]
  IN  IF pr.inAll /\ H1.pending = {}
        THEN [checkAllSettled(H1) EXCEPT !.notes = IF disposed THEN H1.notes ELSE @]
        ELSE H1

\* settle without the `finally` of checkHost on a failed probe
settle_NoFinally(H, i, msg) ==
  LET pr == H.probes[i]
      h == pr.host
      st == IF msg = "ok"
              THEN [status |-> HEALTHY, checkedAt |-> TRUE, latencyMs |-> TRUE,
                    error |-> "none", consecutiveFailures |-> 0]
              ELSE [status |-> UNHEALTHY, checkedAt |-> TRUE, latencyMs |-> FALSE,
                    error |-> normalizeHealthError(msg),
                    consecutiveFailures |-> pr.previousFailures + 1]
      H1 == [H EXCEPT
               !.probes = SubSeq(@, 1, i - 1) \o SubSeq(@, i + 1, Len(@)),
               !.states = Put(@, h, st),
               !.active = IF msg = "ok" THEN @ \ {h} ELSE @,
               !.notes = IF disposed \/ msg # "ok" THEN @ ELSE Append(@, h),
               !.pending = IF pr.inAll THEN @ \ {h} ELSE @]
  IN  IF pr.inAll /\ H1.pending = {}
        THEN [checkAllSettled(H1) EXCEPT !.notes = IF disposed THEN H1.notes ELSE @]
        ELSE H1

\* a probe settles: the try/catch/finally of checkHost, and the
\* continuation of the checkAllNow that awaited it last
settle(H, i, msg) ==
  LET pr == H.probes[i]
      h == pr.host
      st == IF msg = "ok"
              THEN [status |-> HEALTHY, checkedAt |-> TRUE, latencyMs |-> TRUE,
                    error |-> "none", consecutiveFailures |-> 0]
              ELSE [status |-> UNHEALTHY, checkedAt |-> TRUE, latencyMs |-> FALSE,
                    error |-> normalizeHealthError(msg),
                    consecutiveFailures |-> pr.previousFailures + 1]
      H1 == [H EXCEPT
               !.probes = SubSeq(@, 1, i - 1) \o SubSeq(@, i + 1, Len(@)),
               !.states = Put(@, h, st),
               !.active = @ \ {h},
               !.notes = IF disposed THEN @ ELSE Append(@, h),
               !.pending = IF pr.inAll THEN @ \ {h} ELSE @]
  IN  IF pr.inAll /\ H1.pending = {}
        THEN [checkAllSettled(H1) EXCEPT !.notes = IF disposed THEN H1.notes ELSE @]
        ELSE H1

\* the handler's outcome written back to the fields
HealthStep(H, name, h) ==
  /\ hstates' = H.states
  /\ activeChecks' = H.active
  /\ intervalHandle' = H.interval
  /\ runningCheckAll' = H.running
  /\ probes' = H.probes
  /\ pendingAll' = H.pending
  /\ hlast' = [op |-> name, host |-> h, notes |-> H.notes, started |-> H.started]

\* HealthCheckManager.start, called once by activate
Start ==
  /\ ~started /\ ~disposed
  /\ started' = TRUE
  /\ UNCHANGED <<enabled, visible, disposed, connVars, decVars, wsVars, cfgVars>>
  /\ HealthStep(checkAllNow(restartScheduler(HealthNow)), "start", "")

\* the setInterval callback of restartScheduler
Tick ==
  /\ intervalHandle
  /\ UNCHANGED <<enabled, visible, disposed, started, connVars, decVars, wsVars, cfgVars>>
  /\ HealthStep(checkAllNow(HealthNow), "tick", "")

\* terminax.refresh / handleConfigMutation / import: checkAllNow, with the
\* set of visible hosts possibly changed by the mutation
CheckAllNow(S) ==
  /\ started
  /\ visible' = S
  /\ UNCHANGED <<enabled, disposed, started, connVars, decVars, wsVars, cfgVars>>
  /\ HealthStep(checkAllNow(HealthNow), "checkAllNow", "")

\* HealthCheckManager.checkHostNow(hostId)
CheckHostNow(h) ==
  /\ started
  /\ UNCHANGED <<enabled, visible, disposed, started, connVars, decVars, wsVars, cfgVars>>
  /\ HealthStep(IF h \in visible THEN checkHost(HealthNow, h, FALSE) ELSE HealthNow,
                "checkHostNow", h)

\* onDidChangeConfiguration for terminax.healthChecks.*
ConfigChanged(b) ==
  /\ started /\ ~disposed
  /\ enabled' = b
  /\ UNCHANGED <<visible, disposed, started, connVars, decVars, wsVars, cfgVars>>
  /\ HealthStep(checkAllNow(restartScheduler(HealthNow)), "configChanged", "")

\* a settling probe that also marks a failed host's connection state Error
ProbeSettle_FlagsConnection(i, msg) ==
  /\ i \in 1..Len(probes)
  /\ msg # "ok" => probes[i].previousFailures < MaxFailures
  /\ states' = IF msg = "ok" THEN states
               ELSE [states EXCEPT ![probes[i].host].status = ERROR]
  /\ UNCHANGED <<enabled, visible, disposed, started, decVars, wsVars, cfgVars>>
  /\ UNCHANGED <<now, authMethod, stored, nPty, pty, terminals, terminalsByHost,
                 terminalStatuses, broadcastHostIds, broadcastActive,
                 lastBroadcast, limits>>
  /\ HealthStep(settle(HealthNow, i, msg), "settle", probes[i].host)

\* probeTcp settles: connect ("ok"), or timeout / socket error (a message)
ProbeSettle(i, msg) ==
  /\ i \in 1..Len(probes)
  /\ msg # "ok" => probes[i].previousFailures < MaxFailures
  /\ UNCHANGED <<enabled, visible, disposed, started, connVars, decVars, wsVars, cfgVars>>
  /\ HealthStep(settle(HealthNow, i, msg), "settle", probes[i].host)

\* HealthCheckManager.dispose
Dispose ==
  /\ started /\ ~disposed
  /\ disposed' = TRUE
  /\ intervalHandle' = FALSE
  /\ hlast' = [op |-> "dispose", host |-> "", notes |-> <<>>, started |-> {}]
  /\ UNCHANGED <<enabled, visible, started, hstates, activeChecks, runningCheckAll,
                 probes, pendingAll, connVars, decVars, wsVars, cfgVars>>

InitHealth ==
  /\ enabled \in BOOLEAN
  /\ visible \in SUBSET Hosts
  /\ hstates = <<>>
  /\ activeChecks = {}
  /\ intervalHandle = FALSE
  /\ runningCheckAll = FALSE
  /\ disposed = FALSE
  /\ started = FALSE
  /\ probes = <<>>
  /\ pendingAll = {}
  /\ hlast = NoStep
  /\ InitConn
  /\ authMethod \in AuthConfigs
  /\ stored = [h \in Hosts |-> FALSE]
  /\ limits = [sessions |-> 0, attempts |-> 0, hosts |-> {}, clock |-> 0,
               codes |-> {}]
  /\ InitDecodersIdle
  /\ InitWorkspaceIdle
  /\ InitConfigIdle

NextHealth ==
  \/ Start
  \/ Tick
  \/ \E S \in SUBSET Hosts : CheckAllNow(S)
  \/ \E h \in Hosts : CheckHostNow(h)
  \/ \E b \in BOOLEAN : ConfigChanged(b)
  \/ \E i \in 1..Len(probes), msg \in ProbeErrMsgs \cup {"ok"} : ProbeSettle(i, msg)
  \/ Dispose

SpecHealth == InitHealth /\ [][NextHealth]_vars

\* probeTcp of host h's probe settles: its socket connects, fails, or runs
\* into the timeout set with socket.setTimeout
ProbeOfHostSettles(h) ==
  \E i \in 1..Len(probes), msg \in ProbeErrMsgs \cup {"ok"} :
    probes[i].host = h /\ ProbeSettle(i, msg)

\* the health checks over a fixed set of visible hosts
NextHealthLive ==
  \/ Start
  \/ Tick
  \/ \E h \in Hosts : CheckHostNow(h)
  \/ \E b \in BOOLEAN : ConfigChanged(b)
  \/ \E i \in 1..Len(probes), msg \in ProbeErrMsgs \cup {"ok"} : ProbeSettle(i, msg)
  \/ Dispose

\* the health checks, with every probe's socket settling in the end
SpecHealthLive ==
  InitHealth /\ [][NextHealthLive]_vars
    /\ \A h \in Hosts : WF_vars(ProbeOfHostSettles(h))

\* one session, over ssh2 or through the ssh program, on a host whose
\* health is being checked
InitFleet ==
  /\ InitConn
  /\ authMethod \in {[h \in Hosts |-> m] : m \in {"agent", "openssh"}}
  /\ stored = [h \in Hosts |-> FALSE]
  /\ limits = [sessions |-> 1, attempts |-> 1, hosts |-> {"hA"},
               clock |-> 0, codes |-> {"0", "nonzero"}]
  /\ InitDecodersIdle
  /\ InitWorkspaceIdle
  /\ InitConfigIdle
  /\ enabled = TRUE
  /\ visible = {"hA"}
  /\ hstates = <<>>
  /\ activeChecks = {}
  /\ intervalHandle = FALSE
  /\ runningCheckAll = FALSE
  /\ disposed = FALSE
  /\ started = FALSE
  /\ probes = <<>>
  /\ pendingAll = {}
  /\ hlast = NoStep

NextFleet ==
  \/ NextSession
  \/ NextHealthLive

\* sessions and health checks side by side
SpecFleet == InitFleet /\ [][NextFleet]_vars

(* ======================================================================= *)
(*  Decoding the output of one connection                                  *)
(* ======================================================================= *)

RECURSIVE Sum(_)
Sum(s) == IF s = <<>> THEN 0 ELSE Head(s) + Sum(Tail(s))

\* the bytes channel ch has delivered so far
Fed(ch) == Take(chunkInput[ch], Sum(chunks[ch]))

\* SSHPseudoTerminal.resetDecoders at connect(); the bytes the connection
\* will deliver on its channels are any of at most MaxLen bytes altogether
InitDecoders ==
  /\ chunkInput \in {f \in [Channels -> BytesUpTo(MaxLen)] :
                        Len(f["stdout"]) + Len(f["stderr"]) <= MaxLen}
  /\ chunks = [ch \in Channels |-> <<>>]
  /\ decoders = [ch \in Channels |-> NewDecoder]
  /\ emitted = [ch \in Channels |-> <<>>]
  /\ flushed = FALSE
  /\ InitConn
  /\ authMethod \in AuthConfigs
  /\ stored = [h \in Hosts |-> FALSE]
  /\ limits = [sessions |-> 0, attempts |-> 0, hosts |-> {}, clock |-> 0,
               codes |-> {}]
  /\ InitHealthIdle
  /\ InitWorkspaceIdle
  /\ InitConfigIdle

\* stream.on('data') / stream.stderr.on('data') / sshProcess.stdout.on('data')
\* / sshProcess.stderr.on('data'): the next k bytes of channel ch arrive
ChannelData(ch, k) ==
  /\ ~flushed /\ k >= 1
  /\ Len(chunks[ch]) < MaxWrites
  /\ Sum(chunks[ch]) + k <= Len(chunkInput[ch])
  /\ LET n == Sum(chunks[ch])
         res == emitDecodedChunk(decoders, emitted, ch,
                                 SubSeq(chunkInput[ch], n + 1, n + k))
     IN /\ decoders' = res.decoders
        /\ emitted' = res.emitted
  /\ chunks' = [chunks EXCEPT ![ch] = Append(@, k)]
  /\ UNCHANGED <<chunkInput, flushed, connVars, healthVars, wsVars, cfgVars>>

\* SSHPseudoTerminal.flushStreamDecoders / flushNativeDecoders, when the
\* stream or the process has closed
FlushDecoders ==
  /\ ~flushed
  /\ LET r1 == flushDecoder(decoders, emitted, "stdout")
         r2 == flushDecoder(r1.decoders, r1.emitted, "stderr")
     IN /\ decoders' = r2.decoders
        /\ emitted' = r2.emitted
  /\ flushed' = TRUE
  /\ UNCHANGED <<chunkInput, chunks, connVars, healthVars, wsVars, cfgVars>>

NextDecoders ==
  \/ \E ch \in Channels, k \in 1..MaxLen : ChannelData(ch, k)
  \/ FlushDecoders

SpecDecoders == InitDecoders /\ [][NextDecoders]_vars

(* ======================================================================= *)
(*  Claims                                                                 *)
(* ======================================================================= *)

\* the session ids tracked under host h
TrackedIds(h) == Range(getTerminalIdsByHost(terminalsByHost, h))
\* pseudoterminal q is the pty of a tracked session
Tracked(q) ==
  /\ pty[q].created
  /\ pty[q].tid \in DOMAIN terminals
  /\ terminals[pty[q].tid] = q
  /\ pty[q].tid \in TrackedIds(pty[q].host)

\* C1: a host with at least one tracked session recorded Connected has cached
\* aggregate status Connected, whatever the status of its other sessions.
C1_ConnectedWins ==
  \A h \in Hosts :
    (\E id \in TrackedIds(h) : StatusOf(terminalStatuses, id) = CONNECTED)
      => states[h].status = CONNECTED

\* C1 witness: a host with a Connected and an Error session, aggregate Connected
C1_Witness ==
  \E h \in Hosts :
    /\ \E id \in TrackedIds(h) : StatusOf(terminalStatuses, id) = CONNECTED
    /\ \E id \in TrackedIds(h) : StatusOf(terminalStatuses, id) = ERROR
    /\ states[h].status = CONNECTED

\* C2: a host with tracked sessions, none Connected and at least one Error,
\* has cached aggregate status Error.
C2_ErrorWithoutConnected ==
  \A h \in Hosts :
    ( /\ TrackedIds(h) # {}
      /\ \A id \in TrackedIds(h) : StatusOf(terminalStatuses, id) # CONNECTED
      /\ \E id \in TrackedIds(h) : StatusOf(terminalStatuses, id) = ERROR )
      => states[h].status = ERROR

\* C2 witness: a host with an Error and a Disconnected session, aggregate Error
C2_Witness ==
  \E h \in Hosts :
    /\ \E id \in TrackedIds(h) : StatusOf(terminalStatuses, id) = ERROR
    /\ \E id \in TrackedIds(h) : StatusOf(terminalStatuses, id) = DISCONNECTED
    /\ states[h].status = ERROR

\* C3: a host with no session left in the pool has aggregate state
\* Disconnected: the tracker's entry says Disconnected once the host has had
\* a session, and is absent (read as Disconnected) before its first one.
C3_NoSessionDisconnected ==
  \A h \in Hosts :
    TrackedIds(h) = {} =>
      IF \E q \in PtyIds : pty[q].created /\ pty[q].host = h
        THEN states[h].status = DISCONNECTED
        ELSE states[h] = NoState

\* C3 witness: the last session of a host, one that had been Connected and
\* ended in Error, was removed and the host reads Disconnected
C3_Witness ==
  \E q \in PtyIds :
    /\ pty[q].created /\ pty[q].termClosed /\ pty[q].hasEverConnected
    /\ pty[q].closeFired > 0
    /\ TrackedIds(pty[q].host) = {}
    /\ states[pty[q].host].status = DISCONNECTED

\* broadcastCommand has just returned
BroadcastRan == lastBroadcast # NoBroadcast

\* the session's transport handle is live
HandleLive(r) == r.stream # 0 \/ r.nativeProcess \in {"starting", "running"}

\* C4 (as claimed): broadcastCommand writes exactly once to each tracked
\* session of a host in scope that is Connected with a live handle, to no
\* other session, and returns their number.
C4_BroadcastOnlyConnected ==
  BroadcastRan =>
    LET target(q) == /\ Tracked(q)
                     /\ broadcastActive
                     /\ pty[q].host \in broadcastHostIds
                     /\ StatusOf(terminalStatuses, pty[q].tid) = CONNECTED
                     /\ HandleLive(pty[q])
                     /\ ~pty[q].isCleanedUp
    IN  /\ \A q \in PtyIds : lastBroadcast.writes[q] = IF target(q) THEN 1 ELSE 0
        /\ lastBroadcast.sent = Cardinality({q \in PtyIds : target(q)})

\* C5: with broadcast inactive or its scope empty, broadcastCommand returns
\* sent = 0 and writes to no session; the scope is active iff it is non-empty.
C5_InactiveBroadcastSendsNothing ==
  /\ broadcastActive <=> broadcastHostIds # {}
  /\ (BroadcastRan /\ (~broadcastActive \/ broadcastHostIds = {})) =>
       /\ lastBroadcast.sent = 0
       /\ \A q \in PtyIds : lastBroadcast.calls[q] = 0 /\ lastBroadcast.writes[q] = 0

\* C5 witness: broadcastCommand ran with broadcast inactive while a tracked
\* session could take input
C5_Witness ==
  /\ BroadcastRan /\ ~broadcastActive /\ lastBroadcast.sent = 0
  /\ \E q \in PtyIds : Tracked(q) /\ isStreamActive(pty[q])

\* the hosts with a probe in flight, as positions of the probes sequence
ProbesOf(h) == {i \in 1..Len(probes) : probes[i].host = h}

\* C6 (state part): no host has two probes outstanding, and the hosts with a
\* probe outstanding are exactly the hosts of activeChecks
SingleFlight ==
  /\ \A h \in Hosts : Cardinality(ProbesOf(h)) <= 1
  /\ activeChecks = {probes[i].host : i \in 1..Len(probes)}

\* C6 (step part): a step taken while host h has a probe outstanding opens no
\* socket to h and, unless it is h's probe settling, fires no notification
\* for h and leaves h's health state as it was
DuplicateDropped ==
  \A h \in activeChecks :
    /\ h \notin hlast'.started
    /\ h \in activeChecks' =>
         /\ ~SeqHas(hlast'.notes, h)
         /\ h \in DOMAIN hstates' => (h \in DOMAIN hstates /\ hstates'[h] = hstates[h])

\* C6: under any interleaving of ticks, checkAllNow and checkHostNow at most
\* one probe is outstanding per host, and a request for a host whose probe is
\* outstanding opens no socket, changes no health state, emits no notification.
C6_SingleFlightPerHost == [](SingleFlight) /\ [][DuplicateDropped]_vars

\* C6 witness: checkHostNow has just been called for a host whose probe is
\* still outstanding
C6_Witness ==
  /\ hlast.op = "checkHostNow"
  /\ hlast.host \in activeChecks
  /\ hlast.started = {} /\ hlast.notes = <<>>

\* C7 (as claimed): after every scheduled tick every visible host has a probe
\* in flight.
C7_EveryTickProbesAll ==
  hlast.op = "tick" => visible \subseteq activeChecks

\* a settled probe recorded its host's result and touched no other probe
SettledAlone ==
  (hlast'.op = "settle" /\ activeChecks' # activeChecks) =>
     LET h == hlast'.host
     IN  /\ hstates'[h].status \in {HEALTHY, UNHEALTHY}
         /\ activeChecks' = activeChecks \ {h}
         /\ \A g \in activeChecks' :
              g \in DOMAIN hstates => (g \in DOMAIN hstates' /\ hstates'[g] = hstates[g])

\* C7 (amended): a scheduled tick that finds no fleet-wide check running
\* leaves every visible host with a probe in flight; each probe settles on
\* its own, its result recorded while the other hosts' probes stay in flight.
C7_TickProbesAllWhenIdle ==
  [][ /\ (hlast'.op = "tick" /\ ~runningCheckAll) => visible \subseteq activeChecks'
      /\ SettledAlone ]_vars

\* C7 witness: within a fleet-wide round one host's result is recorded while
\* another host's probe is still in flight
C7_Witness ==
  /\ hlast.op = "settle" /\ runningCheckAll
  /\ hlast.host \in DOMAIN hstates
  /\ hstates[hlast.host].status \in {HEALTHY, UNHEALTHY}
  /\ \E g \in activeChecks : g # hlast.host /\ g \in pendingAll

\* C8: a completed probe sets consecutiveFailures to 0 on success (Healthy,
\* latency recorded, no error) and otherwise to the count the host had when
\* the probe began plus one, from 0 without prior state (Unhealthy, classified
\* error).
C8_FailuresCounted ==
  [][ /\ \A h \in activeChecks' \ activeChecks :
           \E i \in 1..Len(probes') :
             /\ probes'[i].host = h
             /\ probes'[i].previousFailures = PreviousFailures(hstates, h)
      /\ \A i \in 1..Len(probes) :
           LET h == probes[i].host
           IN  h \notin activeChecks' =>
                 \/ /\ hstates'[h].status = HEALTHY
                    /\ hstates'[h].consecutiveFailures = 0
                    /\ hstates'[h].latencyMs /\ hstates'[h].error = "none"
                 \/ /\ hstates'[h].status = UNHEALTHY
                    /\ hstates'[h].consecutiveFailures = probes[i].previousFailures + 1
                    /\ hstates'[h].error \in {normalizeHealthError(m) : m \in ProbeErrMsgs}
    ]_vars

\* C8 witness: a host's second failed probe in a row has completed
C8_Witness ==
  /\ hlast.op = "settle"
  /\ hlast.host \in DOMAIN hstates
  /\ hstates[hlast.host].status = UNHEALTHY
  /\ hstates[hlast.host].consecutiveFailures = 2

\* C9 (as claimed): once restartScheduler has run with health checks disabled,
\* and while they stay disabled, the scheduler is stopped, no probe is
\* started and the health cache is empty.
C9_DisabledStaysEmpty ==
  (started /\ ~enabled) =>
     /\ ~intervalHandle
     /\ hlast.started = {}
     /\ hstates = <<>>

\* C10 (as claimed): within one connection cycle a session of a password host
\* makes at most one attempt beyond its first, and only after an
\* authentication failure of that cycle; a session of any other host makes
\* one attempt per cycle and never deletes a password or re-prompts.
C10_OneRetryPerCycle ==
  \A q \in PtyIds :
    pty[q].created =>
      IF authMethod[pty[q].host] = "password"
        THEN pty[q].cycAttempts <= 1 + (IF pty[q].cycAuthFails >= 1 THEN 1 ELSE 0)
        ELSE pty[q].cycAttempts <= 1 /\ pty[q].nDel = 0 /\ pty[q].nRetryPrompt = 0

\* C11: close() called any number of times tears down each transport handle
\* (stream.close, client.end, child kill) at most once in total, and a
\* close() on an already-closed session leaves the session as it is.
C11_CloseIdempotent ==
  \A q \in PtyIds :
    pty[q].created =>
      /\ pty[q].closeCalled => cleanup(pty[q]) = pty[q]
      /\ pty[q].nKill <= 1
      /\ \A c \in ClientIds :
           pty[q].cl[c].nEnd <= 1 /\ pty[q].cl[c].nStreamClose <= 1

\* C11 witness: a closed session whose client and shell stream were each
\* torn down once
C11_Witness ==
  \E q \in PtyIds, c \in ClientIds :
    /\ pty[q].created /\ pty[q].closeCalled /\ pty[q].isCleanedUp
    /\ pty[q].cl[c].nEnd = 1 /\ pty[q].cl[c].nStreamClose = 1
    /\ pty[q].client = 0 /\ pty[q].stream = 0

\* C12 (as claimed): once close() has been called the session holds no
\* transport handle (client, shell stream, child process), neither right
\* after close() nor after a prompt that was pending resolves.
C12_NoHandleAfterClose ==
  \A q \in PtyIds :
    (pty[q].created /\ pty[q].closeCalled) =>
      /\ pty[q].client = 0
      /\ pty[q].stream = 0
      /\ pty[q].nativeProcess = "null"

\* the session holds no transport handle
NoHandle(r) == r.client = 0 /\ r.stream = 0 /\ r.nativeProcess = "null"

\* the step is a terminal transition of session q: it fired the close event
\* (shell or process exit, fatal error) or opened the lost-connection prompt
TerminalTransition(q) ==
  \/ pty'[q].closeFired > pty[q].closeFired
  \/ pty'[q].nReconn > pty[q].nReconn

\* C13 (as claimed): a terminal transition of a session the operator has not
\* closed (Disconnected after its shell exits, Error after a failure or a
\* lost connection) leaves all of its transport handles null.
C13_TerminalReleasesHandles ==
  [][ \A q \in PtyIds :
        (pty[q].created /\ ~pty'[q].closeCalled /\ TerminalTransition(q))
          => NoHandle(pty'[q]) ]_vars

\* C14 (as claimed): when a session's shell or remote process ends, exit code
\* 0 or no exit status gives Disconnected, and a non-zero exit code or a
\* terminating signal gives Error with an exit code recorded in the metadata.
C14_ExitCodeDecidesStatus ==
  \A q \in PtyIds :
    (pty[q].created /\ pty[q].exitHow # "none") =>
      IF pty[q].exitHow \in {"0", "undefined"}
        THEN pty[q].exitStatus = DISCONNECTED
        ELSE pty[q].exitStatus = ERROR /\ pty[q].exitCode \in {"code", "1"}

\* the shell of session q is open on Client c and has not exited
ShellOpenOn(q, c) ==
  /\ pty[q].created /\ ~pty[q].closeCalled
  /\ pty[q].client = c /\ pty[q].stream = c
  /\ pty[q].cl[c].st = "ready" /\ pty[q].cl[c].sh = "open"
  /\ ~pty[q].streamClosedGracefully

\* what the 'close' event of Client c does to session q
AfterClientClose(q, c) == onClientClose([pty[q] EXCEPT !.cl[c].st = "closed"])

\* a step that answers a reconnect prompt of session q
ReconnectAnswered(q) == pty[q].created /\ pty'[q].nReconn < pty[q].nReconn

\* C15 (as claimed): a transport close while the shell is open and has not
\* exited reports Error, releases the handles and opens a reconnect prompt;
\* Reconnect starts a new attempt in the same session, declining fires the
\* close event and ends the session.
C15_LostConnectionOffersReconnect ==
  /\ [](\A q \in PtyIds, c \in ClientIds :
          ShellOpenOn(q, c) =>
            /\ AfterClientClose(q, c).emit = ERROR
            /\ NoHandle(AfterClientClose(q, c).r)
            /\ AfterClientClose(q, c).r.nReconn = pty[q].nReconn + 1)
  /\ [][ \A q \in PtyIds :
           ReconnectAnswered(q) =>
             \/ /\ pty'[q].attempts = pty[q].attempts + 1
                /\ pty'[q].tid = pty[q].tid
             \/ /\ pty'[q].attempts = pty[q].attempts
                /\ pty'[q].closeFired = pty[q].closeFired + 1
                /\ pty'[q].isCleanedUp /\ NoHandle(pty'[q]) ]_vars

\* C16 (as claimed): a reconnect prompt is opened only for a session that has
\* reached Connected before; a session that fails or loses its transport
\* before ever being Connected gets no reconnect offer.
C16_ReconnectOnlyAfterConnected ==
  [][ \A q \in PtyIds :
        (pty[q].created /\ pty'[q].nReconn > pty[q].nReconn)
          => pty'[q].hasEverConnected ]_vars

\* what an 'error' event of Client c with message msg does to session q
AfterClientError(q, c, msg) == handleError([pty[q] EXCEPT !.cl[c].st = "errored"], msg)

\* the run of pty code ended the session: Error reported, the close event
\* fired once, all handles released, and nothing started or offered
EndsInError(r, res) ==
  /\ res.emit = ERROR
  /\ res.r.isCleanedUp /\ NoHandle(res.r)
  /\ res.r.closeFired = r.closeFired + 1
  /\ res.r.attempts = r.attempts
  /\ res.r.nReconn = r.nReconn
  /\ res.r.nDel = r.nDel /\ res.r.nRetryPrompt = r.nRetryPrompt

\* C17 (as claimed): a connection error classified refused or dns always
\* ends the session: Error, transport released, close event fired, and no
\* retry, reconnect attempt or reconnect prompt, whether or not the session
\* had been Connected before.
C17_RefusedAndDnsTerminate ==
  \A q \in PtyIds, c \in ClientIds, msg \in {"refused", "dns"} :
    (pty[q].created /\ ~pty[q].closeCalled /\ pty[q].cl[c].st = "connecting")
      => /\ interpretConnectionError(msg) = msg
         /\ EndsInError(pty[q], AfterClientError(q, c, msg))

\* C18 (as claimed): handleInput writes to the remote side only when the
\* session's recorded status is Connected; in every other state it writes
\* nothing.
C18_InputOnlyWhenConnected ==
  \A q \in PtyIds :
    (Tracked(q) /\ handleInput(pty[q]) > 0)
      => StatusOf(terminalStatuses, pty[q].tid) = CONNECTED

\* C19: over the external-process transport each connection attempt reports
\* Connected at most once, at the first of the grace timer and the first
\* output; never with the child process closed or failed, nor after cleanup.
C19_OpenSshConnectedOnce ==
  /\ [](\A q \in PtyIds :
          (pty[q].created /\ authMethod[pty[q].host] = "openssh") =>
            /\ pty[q].nMark <= pty[q].attempts
            /\ pty[q].nMark <= 1
            /\ (pty[q].nativeProcess = "running" /\ ~pty[q].openSshMarkedConnected
                  /\ ~pty[q].isCleanedUp)
                 => markOpenSshConnected(pty[q]).emit = CONNECTED)
  /\ [][ \A q \in PtyIds :
           (pty[q].created /\ pty'[q].nMark > pty[q].nMark) =>
             /\ ~pty[q].isCleanedUp /\ ~pty[q].openSshMarkedConnected
             /\ pty[q].nativeProcess \in {"running", "exited"}
             /\ Tracked(q) => StatusOf(terminalStatuses', pty[q].tid) = CONNECTED ]_vars

\* C19 witness: Connected was reported once and both the timer and output
\* have come since (the timer is spent, the flag is set)
C19_Witness ==
  \E q \in PtyIds :
    /\ pty[q].created /\ authMethod[pty[q].host] = "openssh"
    /\ pty[q].nMark = 1 /\ pty[q].openSshMarkedConnected
    /\ pty[q].nativeProcess = "running" /\ ~pty[q].openSshConnectedTimer

\* what channel ch emits when all it has delivered arrives in one write
WholeWrite(ch) == write(NewDecoder, Fed(ch))

\* C20: on each output channel, the chunks written to the decoder emit in
\* concatenation the text that one write of the same bytes emits, wherever
\* the chunks were split, and leave the decoder as that one write leaves it;
\* what the other channel is fed changes neither.
C20_SplitWritesDecodeAlike ==
  \A ch \in Channels :
    IF flushed
      THEN emitted[ch] = WholeWrite(ch).out \o end(WholeWrite(ch).d).out
      ELSE /\ emitted[ch] = WholeWrite(ch).out
           /\ decoders[ch] = WholeWrite(ch).d

\* C20 witness: a channel has delivered a 3-byte character in two chunks
\* split inside it and emitted the character, while the other channel was
\* left with the first byte of a character between the two chunks
C20_Witness ==
  \E ch \in Channels, other \in Channels :
    /\ ch # other /\ ~flushed
    /\ Len(chunks[ch]) = 2 /\ chunks[ch][1] \in {1, 2}
    /\ chunkInput[ch] = <<"L3", "C", "C">>
    /\ emitted[ch] = <<"u3">>
    /\ decoders[other].lastNeed > 0

\* buildSSHConfig fails in session q after a prompt or a file read: the
\* password prompt is cancelled or the key file cannot be read
AfterConfigFailure(q) == handleError([pty[q] EXCEPT !.nCfg = @ - 1], "generic")

\* no Client of r2 is connecting that was not connecting in r
NoNewTransport(r, r2) ==
  \A c \in ClientIds : r2.cl[c].st = "connecting" => r.cl[c].st = "connecting"

\* after the run of pty code the session q is over: its status is Error, its
\* close event has fired, it is cleaned up and holds no handle
EndedInError(q, res) ==
  /\ \/ res.emit = ERROR
     \/ res.emit = NoEmit /\ Tracked(q)
          /\ StatusOf(terminalStatuses, pty[q].tid) = ERROR
  /\ res.r.isCleanedUp /\ NoHandle(res.r)
  /\ res.r.closeFired >= 1

\* C21 (as claimed): when buildSSHConfig cannot obtain the credentials of a
\* session that was not closed, no Client is connected, the session reports
\* Error, emits its close event, is cleaned up and holds no handle.
C21_NoCredentialsEndsSession ==
  \A q \in PtyIds :
    (pty[q].created /\ ~pty[q].closeCalled /\ pty[q].nCfg > 0) =>
      /\ NoNewTransport(pty[q], AfterConfigFailure(q).r)
      /\ EndedInError(q, AfterConfigFailure(q))

\* SSHTreeDataProvider.refresh(element): the element its change event is
\* fired with ("undefined": the whole tree)
refresh(element) == <<element>>

\* ConnectionManager.refreshTree: treeProvider.refresh() without an element
refreshTree == refresh("undefined")

\* ConnectionManager.emitSessionChange: onDidChangeSessions carries no host
emitSessionChange == <<"undefined">>

\* the notifications a run of recomputeHostState(hostId) fires: each of its
\* branches ends in refreshTree()
recomputeNotifications(hostId) == refreshTree

\* a session of host h was added, removed, or changed its status in the step
SessionEvent(h) ==
  \/ getTerminalIdsByHost(terminalsByHost', h) # getTerminalIdsByHost(terminalsByHost, h)
  \/ \E id \in TrackedIds(h) :
       StatusOf(terminalStatuses', id) # StatusOf(terminalStatuses, id)
  \/ states'[h] # states[h]

\* C22 (as claimed): a step that adds, removes or changes the status of a
\* session of host h recomputes h's aggregate state and notifies of the
\* change with h's id only, never with a notification for the whole fleet.
C22_NotificationScopedToHost ==
  [][ \A h \in Hosts :
        SessionEvent(h) =>
          /\ recomputeNotifications(h) = <<h>>
          /\ "undefined" \notin Range(recomputeNotifications(h) \o emitSessionChange) ]_vars

\* C23: the broadcast scope and its active flag change only in a step of
\* startBroadcast or stopBroadcast: connecting, status updates, removing
\* sessions and broadcast sends leave both as they were.
C23_ScopeChangesOnlyByStartStop ==
  [][ (broadcastHostIds' # broadcastHostIds \/ broadcastActive' # broadcastActive)
        => \/ \E S \in SUBSET Hosts : StartBroadcast(S)
           \/ StopBroadcast ]_vars

\* C23 witness: the scope names hA and is active, a command was just
\* broadcast, and hA's session has been closed and removed since it was made
C23_Witness ==
  /\ broadcastActive /\ "hA" \in broadcastHostIds
  /\ lastBroadcast.sent >= 0
  /\ getTerminalIdsByHost(terminalsByHost, "hA") = <<>>
  /\ \E q \in PtyIds : pty[q].created /\ pty[q].host = "hA" /\ pty[q].termClosed

\* the fleet-wide check is marked running exactly while a probe it awaits is
\* outstanding
RunningWhilePending ==
  /\ runningCheckAll <=> pendingAll # {}
  /\ \A h \in pendingAll : \E i \in 1..Len(probes) : probes[i].host = h /\ probes[i].inAll
  /\ \A i \in 1..Len(probes) : probes[i].inAll => probes[i].host \in pendingAll

\* the step is a call of checkAllNow alone (a tick or a direct call)
CheckAllCalled == hlast'.op \in {"tick", "checkAllNow"}

\* checkAllNow during a running fleet-wide check does nothing
ReentryDropped ==
  (CheckAllCalled /\ runningCheckAll) =>
     /\ hlast'.started = {} /\ hlast'.notes = <<>>
     /\ hstates' = hstates /\ activeChecks' = activeChecks
     /\ probes' = probes /\ pendingAll' = pendingAll
     /\ runningCheckAll' /\ intervalHandle' = intervalHandle

\* checkAllNow with no fleet-wide check running probes every visible host
\* that has no probe outstanding
FullRoundWhenIdle ==
  (CheckAllCalled /\ ~runningCheckAll /\ ~disposed /\ enabled) =>
     /\ hlast'.started = visible' \ activeChecks
     /\ visible' \subseteq activeChecks'

\* C24: checkAllNow during a running fleet-wide check starts no probe,
\* changes no state and signals nothing; the running flag is set exactly
\* while a probe of the round is outstanding, whatever the probes' outcomes,
\* and a checkAllNow after that probes the whole fleet again.
C24_CheckAllNotReentrant ==
  [](RunningWhilePending) /\ [][ReentryDropped /\ FullRoundWhenIdle]_vars

\* C24 witness: checkAllNow was just called during a running fleet-wide
\* check that follows an earlier round in which a probe failed
C24_Witness ==
  /\ hlast.op = "checkAllNow" /\ runningCheckAll /\ enabled /\ ~disposed
  /\ hlast.started = {} /\ hlast.notes = <<>>
  /\ \E h \in pendingAll :
       /\ h \in DOMAIN hstates
       /\ hstates[h].status = CHECKING /\ hstates[h].consecutiveFailures >= 1

\* host h's probe has completed: none is outstanding and the result is in
Probed(h) ==
  /\ h \notin activeChecks
  /\ h \in DOMAIN hstates /\ hstates[h].status \in {HEALTHY, UNHEALTHY}

\* probes leave the outstanding ones one at a time, by settling
SettlesOnce ==
  probes' # probes /\ Len(probes') <= Len(probes) =>
     /\ Len(probes') = Len(probes) - 1
     /\ hlast'.op = "settle"
     /\ hlast'.host \notin activeChecks'
     /\ hstates'[hlast'.host].status \in {HEALTHY, UNHEALTHY}

\* C25: every started probe settles in the end, and once: its host then has no
\* probe outstanding and is Healthy or Unhealthy, and no host stays Checking.
C25_ProbesSettle ==
  /\ \A h \in Hosts :
       (h \in activeChecks \/ (h \in DOMAIN hstates /\ hstates[h].status = CHECKING))
         ~> Probed(h)
  /\ [][SettlesOnce]_vars

\* C25 witness: a probe has run into its timeout and its host is Unhealthy
\* with no probe outstanding
C25_Witness ==
  /\ hlast.op = "settle" /\ Probed(hlast.host)
  /\ hstates[hlast.host].status = UNHEALTHY
  /\ hstates[hlast.host].error = normalizeHealthError("timeout")

\* the state checkHost writes for host h when its probe starts: Checking,
\* with what the previous state held, or nothing and no failure without one
CheckingFrom(st, h) ==
  IF h \in DOMAIN st
    THEN [st[h] EXCEPT !.status = CHECKING]
    ELSE [status |-> CHECKING, checkedAt |-> FALSE, latencyMs |-> FALSE,
          error |-> "none", consecutiveFailures |-> 0]

\* a probe that starts sets Checking and carries the previous state over; a
\* probe that completes sets Healthy or Unhealthy
ProbeMarksStatus ==
  /\ \A h \in activeChecks' \ activeChecks :
       h \in DOMAIN hstates' /\ hstates'[h] = CheckingFrom(hstates, h)
  /\ \A h \in activeChecks \ activeChecks' :
       h \in DOMAIN hstates' /\ hstates'[h].status \in {HEALTHY, UNHEALTHY}

\* C26: a probe sets its host's status to Checking when it starts, keeping
\* the previous checkedAt, latency, error and failure count, and to Healthy
\* or Unhealthy when it completes; a host is Checking only while a probe for
\* it is outstanding.
C26_CheckingWhileProbing ==
  /\ [](\A h \in DOMAIN hstates : hstates[h].status = CHECKING => h \in activeChecks)
  /\ [][ProbeMarksStatus]_vars

\* C26 witness: a probe has started on a host whose last probe failed, and
\* the host is Checking with that failure still recorded
C26_Witness ==
  \E h \in activeChecks :
    /\ h \in hlast.started
    /\ h \in DOMAIN hstates /\ hstates[h].status = CHECKING
    /\ hstates[h].checkedAt /\ hstates[h].error # "none"
    /\ hstates[h].consecutiveFailures = 1

\* the step changed something of the HealthCheckManager
HealthChanged ==
  <<hstates, activeChecks, probes, pendingAll, runningCheckAll, intervalHandle,
    hlast, started, disposed>>' #
  <<hstates, activeChecks, probes, pendingAll, runningCheckAll, intervalHandle,
    hlast, started, disposed>>

\* the step changed something of the sessions or of the hosts' aggregate
\* connection states
SessionsChanged ==
  <<pty, nPty, terminals, terminalsByHost, terminalStatuses, states>>' #
  <<pty, nPty, terminals, terminalsByHost, terminalStatuses, states>>

\* host g's health state is the same after the step
HealthKept(g) ==
  /\ g \in DOMAIN hstates' <=> g \in DOMAIN hstates
  /\ g \in DOMAIN hstates => hstates'[g] = hstates[g]

RecordedStatus(q) == StatusOf(terminalStatuses, pty[q].tid)

\* the step is a run of code of pseudoterminal p alone: no session was
\* added or removed
StepOfSession(p) ==
  /\ pty[p].created /\ pty'[p] # pty[p]
  /\ nPty' = nPty /\ terminals' = terminals /\ terminalsByHost' = terminalsByHost

\* C28 (as claimed): when a session reports a status or fails, the recorded
\* status of every other session and the aggregate state of every other host
\* stay as they were.
C28_OneSessionOneHost ==
  [][ \A p \in PtyIds :
        StepOfSession(p) =>
          /\ \A q \in PtyIds \ {p} :
               Tracked(q) => StatusOf(terminalStatuses', pty[q].tid) = RecordedStatus(q)
          /\ \A g \in Hosts \ {pty[p].host} : states'[g] = states[g] ]_vars

\* ---------------------------------------------------------------------
\* The session pool (TerminalManager) under its own calls

\* the ids ConnectionManager.connect can build: terminax-<host id>-<Date.now()>
PoolIds == {<<h, t>> : h \in Hosts, t \in 0..MaxNow}

\* info.hostId of the by-id entry of a session id
hostIdOf(byId, id) == pty[byId[id]].host

\* TerminalManager.getTerminalCount(hostId)
getTerminalCount(h) ==
  IF h \in DOMAIN terminalsByHost THEN Len(terminalsByHost[h]) ELSE 0

\* TerminalManager.hasActiveTerminals(hostId)
hasActiveTerminals(h) ==
  h \in DOMAIN terminalsByHost /\ Len(terminalsByHost[h]) > 0

\* removeTerminal reading info.hostId without the test of info
TerminalManager_removeTerminal_NoInfoTest(byId, byHost, id) ==
  IF id \in DOMAIN byId
    THEN [byId |-> Del(byId, id),
          byHost |-> removeTerminal(byHost, hostIdOf(byId, id), id),
          error |-> "none"]
    ELSE [byId |-> byId, byHost |-> byHost, error |-> "TypeError"]

\* TerminalManager.removeTerminal(terminalId) on both maps: the by-id map
\* and the by-host index it leaves, and the error it raises
TerminalManager_removeTerminal(byId, byHost, id) ==
  IF id \in DOMAIN byId
    THEN [byId |-> Del(byId, id),
          byHost |-> removeTerminal(byHost, hostIdOf(byId, id), id),
          error |-> "none"]
    ELSE [byId |-> byId, byHost |-> byHost, error |-> "none"]

\* a call of TerminalManager.removeTerminal(id) with any id, known or not
RemoveTerminal(id) ==
  /\ nPty > 0
  /\ LET res == TerminalManager_removeTerminal(terminals, terminalsByHost, id)
     IN  /\ res.error = "none"
         /\ terminals' = res.byId
         /\ terminalsByHost' = res.byHost
  /\ lastBroadcast' = NoBroadcast
  /\ UNCHANGED <<now, authMethod, stored, nPty, pty, terminalStatuses, states,
                 broadcastHostIds, broadcastActive, limits, healthVars, decVars, wsVars, cfgVars>>

\* sessions added by connect and removed by handleTerminalClose or by a
\* direct removeTerminal call
InitPool ==
  /\ InitConn
  /\ authMethod \in AuthConfigs
  /\ stored = [h \in Hosts |-> FALSE]
  /\ limits = [sessions |-> MaxSessions, attempts |-> 1, hosts |-> Hosts,
               clock |-> MaxNow, codes |-> {"0", "nonzero"}]
  /\ InitHealthIdle
  /\ InitDecodersIdle
  /\ InitWorkspaceIdle
  /\ InitConfigIdle

NextPool ==
  \/ \E h \in Hosts : Connect(h)
  \/ \E p \in PtyIds : HandleTerminalClose(p)
  \/ \E id \in PoolIds : RemoveTerminal(id)

SpecPool == InitPool /\ [][NextPool]_vars

\* the pool sessions whose by-id entry names host h
PoolSessionsOf(h) == {id \in DOMAIN terminals : hostIdOf(terminals, id) = h}

\* C29: the by-id map and the by-host index of the session pool agree: an id
\* is listed under host h exactly when the by-id map holds it with hostId h,
\* it is listed once and under one host only, getTerminalCount(h) is the
\* number of pool sessions of h, and no empty per-host set is kept
C29_PoolIndexesAgree ==
  /\ \A h \in Hosts, id \in PoolIds :
       id \in Range(getTerminalIdsByHost(terminalsByHost, h))
         <=> id \in PoolSessionsOf(h)
  /\ \A h \in Hosts, g \in Hosts :
       h # g => Range(getTerminalIdsByHost(terminalsByHost, h))
                  \cap Range(getTerminalIdsByHost(terminalsByHost, g)) = {}
  /\ \A h \in Hosts : getTerminalCount(h) = Cardinality(PoolSessionsOf(h))
  /\ \A h \in Hosts : hasActiveTerminals(h) <=> PoolSessionsOf(h) # {}
  /\ \A h \in DOMAIN terminalsByHost : Len(terminalsByHost[h]) > 0

\* a host lost its last session while the other host still has one
C29_Witness ==
  /\ nPty = MaxSessions
  /\ "hA" \notin DOMAIN terminalsByHost
  /\ pty[1].host = "hA"
  /\ getTerminalCount("hB") = 1
  /\ PoolSessionsOf("hB") # {}

\* C30: removeTerminal with an id the pool does not hold, a second removal
\* of the same id included, raises no error and leaves the by-id map and the
\* by-host index of every host as they were
C30_RemoveUnknownIsNoOp ==
  \A id \in PoolIds \ DOMAIN terminals :
    LET res == TerminalManager_removeTerminal(terminals, terminalsByHost, id)
    IN  /\ res.error = "none"
        /\ res.byId = terminals
        /\ \A h \in Hosts : getTerminalIdsByHost(res.byHost, h)
                              = getTerminalIdsByHost(terminalsByHost, h)
        /\ DOMAIN res.byHost = DOMAIN terminalsByHost

\* the id of a session was removed already while another session of the
\* same host is still in the pool
C30_Witness ==
  \E p \in PtyIds, q \in PtyIds :
    /\ pty[p].created /\ pty[q].created
    /\ pty[p].host = pty[q].host
    /\ pty[p].tid \notin DOMAIN terminals
    /\ pty[q].tid \in DOMAIN terminals
    /\ ~pty[p].termClosed

\* the session ids handed out so far, the sessions removed since included
IdsCreated == {pty[q].tid : q \in 1..nPty}

\* C31: a session created by connect receives an id no earlier session of
\* the process had, so that registering it replaces no entry of the pool
C31_SessionIdsDistinct ==
  [][nPty' = nPty + 1 =>
       /\ pty'[nPty'].tid \notin IdsCreated
       /\ pty'[nPty'].tid \notin DOMAIN terminals
       /\ Cardinality(DOMAIN terminals') = Cardinality(DOMAIN terminals) + 1]_vars

(* ======================================================================= *)
(*  Actions of SpecWorkspace: WorkspaceSessionManager                      *)
(* ======================================================================= *)

wsFrame ==
  /\ lastBroadcast' = NoBroadcast
  /\ UNCHANGED <<now, authMethod, stored, terminals, terminalsByHost,
                 terminalStatuses, states, broadcastHostIds, broadcastActive,
                 limits, healthVars, decVars, cfgVars>>

\* WorkspaceSessionManager.connectHost(host, workspaceId), up to the first
\* suspension of pty.open
ConnectHost(h, w) ==
  /\ nPty < limits.sessions
  /\ h \in limits.hosts
  /\ \E cfg \in CfgOutcomes(h) :
       LET p == nPty + 1
           sid == sessionId(h, p)
           snapshot == [workspaceId |-> w, hostId |-> h, status |-> DISCONNECTED,
                        lastError |-> NoError, pty |-> p]
           r == NewPty(h, sid)
           res == connect(r, cfg)
           W == wsCallbacks(
                  [sessions |-> Put(sessions, sid, snapshot),
                   wevents |-> Put(wevents, sid, [added |-> 1, removed |-> 0]),
                   events |-> <<WsEvent("added", sid, DISCONNECTED, NoError)>>],
                  r, res)
       IN  /\ nPty' = p
           /\ pty' = [pty EXCEPT ![p] = res.r]
           /\ sessions' = W.sessions
           /\ wevents' = W.wevents
           /\ wlast' = W.events
  /\ lastInput' = NoInput
  /\ wsFrame

\* WorkspaceSessionManager.disconnectSession(sessionId) of a session of the
\* pool: removeSession(sessionId, true), whose pty.close() is cleanup
DisconnectSession(sid) ==
  /\ sid \in DOMAIN sessions
  /\ LET p == sessions[sid].pty
         W == removeSession(WsNow, sid)
     IN  /\ pty' = [pty EXCEPT ![p] = cleanup([pty[p] EXCEPT !.closeCalled = TRUE])]
         /\ sessions' = W.sessions
         /\ wevents' = W.wevents
         /\ wlast' = W.events
  /\ lastInput' = NoInput
  /\ UNCHANGED nPty
  /\ wsFrame

\* pseudoterminal p fires its writeEmitter (a line of one of its handlers or
\* a decoded chunk): the onDidWrite listener, unless removeSession has
\* disposed it, calls appendOutput
PtyWrite(p) ==
  /\ pty[p].created /\ IsWorkspaceSession(pty[p].tid)
  /\ LET sid == pty[p].tid
         W == IF sid \in DOMAIN sessions THEN appendOutput(WsNow, sid) ELSE WsNow
     IN  /\ sessions' = W.sessions
         /\ wevents' = W.wevents
         /\ wlast' = W.events
  /\ lastInput' = NoInput
  /\ UNCHANGED <<nPty, pty>>
  /\ wsFrame

\* the session ids connectHost can hand out
SessionIds == {sessionId(h, p) : h \in Hosts, p \in PtyIds}

\* broadcastInput without the try around handleInput: the first write that
\* throws ends the loop
broadcastInput_NoTry(w, src, throwing) ==
  LET target(sid) == /\ sid # src
                     /\ sessions[sid].workspaceId = w
                     /\ sessions[sid].status = CONNECTED
                     /\ isStreamActive(pty[sessions[sid].pty])
      stopped(sid) == \E t \in DOMAIN sessions :
                        /\ target(t) /\ t \in throwing
                        /\ sessions[t].pty <= sessions[sid].pty
      calls == [sid \in DOMAIN sessions |->
                  IF target(sid) /\ (~stopped(sid) \/ sid \in throwing) THEN 1 ELSE 0]
      writes == [sid \in DOMAIN sessions |->
                   IF target(sid) /\ ~stopped(sid)
                     THEN handleInput(pty[sessions[sid].pty]) ELSE 0]
  IN  [sent |-> Cardinality({sid \in DOMAIN sessions : target(sid) /\ ~stopped(sid)}),
       workspaceId |-> w, source |-> src, calls |-> calls, writes |-> writes]

\* WorkspaceSessionManager.broadcastInput(workspaceId, sourceSessionId, input):
\* per session the handleInput calls made and the writes that reached the
\* remote side, and the count returned; handleInput throws in `throwing`
broadcastInput(w, src, throwing) ==
  LET target(sid) == /\ sid # src
                     /\ sessions[sid].workspaceId = w
                     /\ sessions[sid].status = CONNECTED
                     /\ isStreamActive(pty[sessions[sid].pty])
      calls == [sid \in DOMAIN sessions |-> IF target(sid) THEN 1 ELSE 0]
      writes == [sid \in DOMAIN sessions |->
                   IF target(sid) /\ sid \notin throwing
                     THEN handleInput(pty[sessions[sid].pty]) ELSE 0]
  IN  [sent |-> Cardinality({sid \in DOMAIN sessions : target(sid) /\ sid \notin throwing}),
       workspaceId |-> w, source |-> src, calls |-> calls, writes |-> writes]

BroadcastInput(w, src, throwing) ==
  /\ nPty > 0
  /\ src \in {pty[q].tid : q \in 1..nPty} \cup {<<>>}
  /\ throwing \subseteq DOMAIN sessions
  /\ lastInput' = broadcastInput(w, src, throwing)
  /\ wlast' = <<>>
  /\ UNCHANGED <<nPty, pty, sessions, wevents>>
  /\ wsFrame

\* sessions of two workspaces on an agent host or an OpenSSH-config host,
\* each making one connection attempt
InitWorkspace ==
  /\ InitConn
  /\ authMethod \in {[h \in Hosts |-> m] : m \in {"agent", "openssh"}}
  /\ stored = [h \in Hosts |-> FALSE]
  /\ limits = [sessions |-> MaxSessions, attempts |-> 1, hosts |-> {"hA"},
               clock |-> 0, codes |-> {"0", "nonzero"}]
  /\ InitHealthIdle
  /\ InitDecodersIdle
  /\ InitWorkspaceIdle
  /\ InitConfigIdle

\* one session of one workspace, with reconnects
InitWorkspaceOne ==
  /\ InitConn
  /\ authMethod \in {[h \in Hosts |-> m] : m \in {"agent", "openssh"}}
  /\ stored = [h \in Hosts |-> FALSE]
  /\ limits = [sessions |-> 1, attempts |-> MaxAttempts, hosts |-> {"hA"},
               clock |-> 0, codes |-> {"0", "nonzero"}]
  /\ InitHealthIdle
  /\ InitDecodersIdle
  /\ InitWorkspaceIdle
  /\ InitConfigIdle

NextWorkspace ==
  \/ \E h \in Hosts, w \in Workspaces : ConnectHost(h, w)
  \/ \E sid \in SessionIds : DisconnectSession(sid)
  \/ \E p \in PtyIds : PtyWrite(p)
  \/ \E w \in Workspaces, src \in SessionIds \cup {<<>>},
        throwing \in SUBSET SessionIds : BroadcastInput(w, src, throwing)
  \/ \E p \in PtyIds, c \in ClientIds : ClientReady(p, c)
  \/ \E p \in PtyIds, c \in ClientIds, msg \in ErrMsgs : ClientError(p, c, msg)
  \/ \E p \in PtyIds, c \in ClientIds : ClientClose(p, c)
  \/ \E p \in PtyIds, c \in ClientIds, ok \in BOOLEAN : ShellCallback(p, c, ok)
  \/ \E p \in PtyIds, c \in ClientIds, code \in ExitCodes : StreamClose(p, c, code)
  \/ \E p \in PtyIds, reconnect \in BOOLEAN : ReconnectAnswer(p, reconnect)
  \/ \E p \in PtyIds : NativeSpawn(p)
  \/ \E p \in PtyIds : NativeTimer(p)
  \/ \E p \in PtyIds : NativeData(p)
  \/ \E p \in PtyIds : NativeError(p)
  \/ \E p \in PtyIds : NativeExit(p)
  \/ \E p \in PtyIds, code \in ExitCodes : NativeClose(p, code)

SpecWorkspace == InitWorkspace /\ [][NextWorkspace]_vars
SpecWorkspaceOne == InitWorkspaceOne /\ [][NextWorkspace]_vars

\* pseudoterminal p fires its close event in this step
CloseFires(p) == pty'[p].closeFired > pty[p].closeFired

\* the step reports Disconnected for session sid: the close event of the
\* step, if any, carries exit code 0
ReportsDisconnected(sid) ==
  \E i \in 1..Len(wlast') :
    /\ wlast'[i].type = "updated" /\ wlast'[i].sid = sid
    /\ wlast'[i].status = DISCONNECTED

\* the session is in the pool and its pty has fired a close event: every
\* such event carried a non-zero code, a clean one having removed it
ClosedNonZero(sid) ==
  /\ sid \in DOMAIN sessions
  /\ pty[sessions[sid].pty].closeFired >= 1

\* disconnectSession(sid) runs in this step
Disconnects(sid) ==
  /\ sid \in DOMAIN sessions
  /\ pty'[sessions[sid].pty].closeCalled
  /\ ~pty[sessions[sid].pty].closeCalled

\* a clean close removes the session with one 'removed' event
CleanCloseRemoves ==
  \A p \in PtyIds :
    (pty[p].created /\ pty[p].tid \in DOMAIN sessions /\ CloseFires(p)
       /\ ReportsDisconnected(pty[p].tid)) =>
      /\ pty[p].tid \notin DOMAIN sessions'
      /\ wevents'[pty[p].tid].removed = 1
      /\ Cardinality({i \in 1..Len(wlast') : wlast'[i].type = "removed"}) = 1

\* a session closed with a non-zero code stays in the pool, in Error
NonZeroCloseKeeps ==
  \A sid \in SessionIds :
    /\ (sid \in DOMAIN sessions /\ CloseFires(sessions[sid].pty)
          /\ sid \in DOMAIN sessions') => sessions'[sid].status = ERROR
    /\ (ClosedNonZero(sid) /\ ~Disconnects(sid)) =>
          sid \in DOMAIN sessions' /\ sessions'[sid].status = ERROR

\* C32: a pty close event with exit code 0 or no code removes the session
\* from the pool with exactly one 'removed' event; after a close event with
\* a non-zero code the session stays in the pool with status Error until it
\* is disconnected
C32_CloseRemovesOrKeeps ==
  [][CleanCloseRemoves /\ NonZeroCloseKeeps]_vars

\* among the events of this step, the 'updated' and 'output' events of a
\* session come after its 'added' event and before its 'removed' event
EventsInOrder ==
  \A i \in 1..Len(wlast') :
    wlast'[i].type \in {"updated", "output"} =>
      /\ \/ wlast'[i].sid \in DOMAIN wevents
         \/ \E j \in 1..(i - 1) :
              wlast'[j].type = "added" /\ wlast'[j].sid = wlast'[i].sid
      /\ wlast'[i].sid \in DOMAIN wevents => wevents[wlast'[i].sid].removed = 0
      /\ ~\E j \in 1..(i - 1) :
              wlast'[j].type = "removed" /\ wlast'[j].sid = wlast'[i].sid

\* C33: for every workspace session 'added' is fired before any 'updated'
\* or 'output' event, 'removed' is fired at most once, and no 'updated' or
\* 'output' event follows 'removed', whatever the pty reports afterwards
C33_SessionEventsOrdered ==
  /\ [](\A sid \in DOMAIN wevents :
          wevents[sid].added = 1 /\ wevents[sid].removed <= 1)
  /\ [][EventsInOrder]_vars

\* a disconnected session's pty connected again and reported Connected: the
\* manager fired nothing for it
C33_Witness ==
  \E p \in PtyIds :
    /\ pty[p].created /\ pty[p].closeCalled
    /\ pty[p].tid \notin DOMAIN sessions
    /\ wevents[pty[p].tid].removed = 1
    /\ pty[p].client # 0 /\ pty[p].cl[pty[p].client].sh = "req"
    /\ wlast = <<>>

\* the sessions broadcastInput has to write to: those of the workspace, the
\* source excepted, that are Connected with an active stream
Addressed(w, src) ==
  {sid \in DOMAIN sessions :
     /\ sid # src
     /\ sessions[sid].workspaceId = w
     /\ sessions[sid].status = CONNECTED
     /\ isStreamActive(pty[sessions[sid].pty])}

\* C34: broadcastInput calls handleInput once on every Connected session of
\* the workspace with an active stream, the source excepted, and on no other
\* session; a call that throws does not keep the later sessions from being
\* written; the count returned is the number of sessions written
C34_BroadcastInputScope ==
  lastInput.sent >= 0 =>
    /\ DOMAIN lastInput.calls = DOMAIN sessions
    /\ \A sid \in DOMAIN sessions :
         /\ lastInput.calls[sid] =
              IF sid \in Addressed(lastInput.workspaceId, lastInput.source)
                THEN 1 ELSE 0
         /\ lastInput.writes[sid] <= lastInput.calls[sid]
    /\ lastInput.sent =
         Cardinality({sid \in DOMAIN sessions : lastInput.writes[sid] = 1})

\* a write that threw for the first session did not keep the second one
\* from being written
C34_Witness ==
  /\ lastInput.sent = 1
  /\ \E a \in DOMAIN sessions, b \in DOMAIN sessions :
       /\ sessions[a].pty < sessions[b].pty
       /\ lastInput.calls[a] = 1 /\ lastInput.writes[a] = 0
       /\ lastInput.writes[b] = 1

\* the shell of connection c of session p has exited cleanly and the
\* session's recorded status is Disconnected
ExitedCleanly(p, c) ==
  /\ pty[p].created /\ ~pty[p].closeCalled
  /\ pty[p].cl[c].sh = "done" /\ pty[p].cl[c].nStreamClose = 0
  /\ pty[p].streamClosedGracefully
  /\ pty[p].exitStatus = DISCONNECTED
  /\ pty[p].tid \in DOMAIN terminalStatuses
  /\ terminalStatuses[pty[p].tid] = DISCONNECTED

\* C35: once the shell has exited cleanly and the session has reported
\* Disconnected, the 'close' event of the same connection leaves the status
\* Disconnected and opens no reconnect prompt
C35_CloseAfterCleanExit ==
  [][\A p \in PtyIds, c \in ClientIds :
       (ExitedCleanly(p, c) /\ ClientClose(p, c)) =>
         /\ StatusOf(terminalStatuses', pty[p].tid) = DISCONNECTED
         /\ pty'[p].nReconn = pty[p].nReconn
         /\ pty'[p].closeFired = pty[p].closeFired]_vars

\* the transport of a connection whose shell exited cleanly was closed by
\* its peer, not by teardownConnection
C35_Witness ==
  \E p \in PtyIds, c \in ClientIds :
    /\ ExitedCleanly(p, c)
    /\ pty[p].cl[c].st = "closed" /\ pty[p].cl[c].nEnd = 0
    /\ pty[p].nReconn = 0

\* the transport handles session p holds or has left open: Clients that can
\* still raise events, and the ssh child process
OpenTransports(p) ==
  Cardinality({c \in ClientIds : pty[p].cl[c].st \in {"new", "connecting", "ready", "errored"}})
    + (IF pty[p].nativeProcess \in {"starting", "running"} THEN 1 ELSE 0)

\* the prompts and retry steps of session p that are pending
PendingPrompts(p) == pty[p].nDel + pty[p].nRetryPrompt + pty[p].nReconn

\* C36: a session owns at most one transport connection and has at most one
\* retry or reconnect prompt pending, also when the 'error' and 'close'
\* events of one failure arrive around the awaits of the authentication retry
C36_OneTransportOnePrompt ==
  \A p \in PtyIds :
    (pty[p].created /\ ~pty[p].closeCalled) =>
      /\ OpenTransports(p) <= 1
      /\ PendingPrompts(p) <= 1

\* C37: a session fires its close event (onDidClose) at most once over its
\* lifetime, whatever the order of transport events, prompts and close()
C37_CloseEventOnce ==
  \A p \in PtyIds : pty[p].created => pty[p].closeFired <= 1

\* C38: the per-session status map of ConnectionManager holds ids of pool
\* sessions only, and a status update for a session no longer in the pool
\* creates no entry and changes no host's aggregate state
C38_StatusesOfPoolSessionsOnly ==
  /\ [](DOMAIN terminalStatuses \subseteq DOMAIN terminals)
  /\ [][\A p \in PtyIds :
          (pty[p].created /\ pty[p].tid \notin DOMAIN terminals
             /\ pty'[p] # pty[p] /\ terminals' = terminals) =>
            /\ terminalStatuses' = terminalStatuses
            /\ states' = states]_vars

\* the step reports Error for session sid with the message of the engine
ReportsEngineError(sid) ==
  \E i \in 1..Len(wlast') :
    /\ wlast'[i].type = "updated" /\ wlast'[i].sid = sid
    /\ wlast'[i].status = ERROR /\ wlast'[i].lastError = EngineError

\* C39: when a session fails, the lastError of its snapshot is the message
\* the pseudoterminal reported with the Error status; the close event of
\* the same failure does not put another message in its place
C39_LastErrorIsEngineMessage ==
  [][\A sid \in SessionIds :
       (sid \in DOMAIN sessions' /\ ReportsEngineError(sid)) =>
         sessions'[sid].lastError = EngineError]_vars

(* ======================================================================= *)
(*  ConfigManager: the host / folder tree                                  *)
(* ======================================================================= *)

\* the folder nodes the operator creates; the host nodes are Hosts
Folders == {"fA", "fB"}
NodeIds == Folders \cup Hosts
\* parentId of a root node
Null == "null"

\* TreeNodeType of a node id
TypeOf(id) == IF id \in Folders THEN "folder" ELSE "host"

\* the nodes of config.nodes (the keys of nodesMap)
Live(ns) == Range(ns)

\* Array.prototype.sort by sortOrder, which is stable: x goes behind the
\* elements of the sorted prefix whose sortOrder is not greater
RECURSIVE InsertByOrder(_, _, _)
InsertByOrder(sorted, x, ob) ==
  IF sorted = <<>> THEN <<x>>
  ELSE IF ob[Head(sorted)].sortOrder <= ob[x].sortOrder
    THEN <<Head(sorted)>> \o InsertByOrder(Tail(sorted), x, ob)
  ELSE <<x>> \o sorted

RECURSIVE SortByOrder(_, _)
SortByOrder(s, ob) ==
  IF s = <<>> THEN <<>>
  ELSE InsertByOrder(SortByOrder(SubSeq(s, 1, Len(s) - 1), ob), s[Len(s)], ob)

\* ConfigManager.getChildren(parentId), and getRootNodes for Null
getChildren(ns, ob, parentId) ==
  SortByOrder(SelectSeq(ns, LAMBDA n : ob[n].parentId = parentId), ob)

\* ConfigManager.reorderSiblings(parentId)
reorderSiblings(ns, ob, parentId) ==
  LET siblings == getChildren(ns, ob, parentId)
  IN  [n \in DOMAIN ob |->
         IF \E i \in 1..Len(siblings) : siblings[i] = n
           THEN [ob[n] EXCEPT !.sortOrder =
                   (CHOOSE i \in 1..Len(siblings) : siblings[i] = n) - 1]
           ELSE ob[n]]

\* the loop of ConfigManager.isDescendant, from node `current`, with the
\* steps left before every live node has been visited
RECURSIVE isDescendantFrom(_, _, _, _, _)
isDescendantFrom(ns, ob, current, nodeId, steps) ==
  IF current = Null \/ current \notin Live(ns) \/ steps = 0 THEN FALSE
  ELSE IF current = nodeId THEN TRUE
  ELSE isDescendantFrom(ns, ob, ob[current].parentId, nodeId, steps - 1)

\* ConfigManager.isDescendant(ancestorId, nodeId)
isDescendant(ns, ob, ancestorId, nodeId) ==
  isDescendantFrom(ns, ob, ancestorId, nodeId, Len(ns) + 1)

\* a deleteNode call in flight: the node it deletes, the children of its
\* loop it has still to delete, and whether it has removed its node and is
\* suspended at `await this.saveConfig()`
Frame(id, rest, saving) == [id |-> id, rest |-> rest, saving |-> saving]

\* the state of the manager as a record
Cfg(ns, ob, st) == [nodes |-> ns, objs |-> ob, deleting |-> st]

\* deleteNode(id), after its loop: the node is removed from config.nodes and
\* nodesMap, its siblings are reordered, and the call suspends at saveConfig
removeNode(ns, ob, st, id) ==
  LET ns2 == SelectSeq(ns, LAMBDA n : n # id)
  IN  Cfg(ns2, reorderSiblings(ns2, ob, ob[id].parentId),
          Append(st, Frame(id, <<>>, TRUE)))

RECURSIVE continueDelete(_, _, _)

\* ConfigManager.deleteNode(id) called with the calls st suspended above it,
\* run up to the next `await this.saveConfig()`
RECURSIVE deleteNode(_, _, _, _)
deleteNode(ns, ob, st, id) ==
  IF id \notin Live(ns) THEN continueDelete(ns, ob, st)
  ELSE LET children == getChildren(ns, ob, id)
       IN  IF TypeOf(id) = "folder" /\ children # <<>>
             THEN deleteNode(ns, ob, Append(st, Frame(id, Tail(children), FALSE)),
                             Head(children))
             ELSE removeNode(ns, ob, st, id)

\* a deleteNode call has returned: the call that awaits it, the last of st,
\* goes on with its loop, or the whole deletion is over
continueDelete(ns, ob, st) ==
  IF st = <<>> THEN Cfg(ns, ob, <<>>)
  ELSE LET f == st[Len(st)]
           below == SubSeq(st, 1, Len(st) - 1)
       IN  IF f.rest # <<>>
             THEN deleteNode(ns, ob, Append(below, Frame(f.id, Tail(f.rest), FALSE)),
                             Head(f.rest))
             ELSE removeNode(ns, ob, below, f.id)

cfgFrame == UNCHANGED <<connVars, healthVars, decVars, wsVars>>

\* ConfigManager.addNode(node) with a new id, up to its await; a call that
\* throws changes nothing
AddNode(id, parentId) ==
  /\ id \notin DOMAIN objs
  /\ parentId # Null => parentId \in Live(nodes) /\ TypeOf(parentId) = "folder"
  /\ objs' = Put(objs, id, [parentId |-> parentId,
                            sortOrder |-> Len(getChildren(nodes, objs, parentId))])
  /\ nodes' = Append(nodes, id)
  /\ UNCHANGED deleting
  /\ cfgFrame

\* ConfigManager.moveNode(nodeId, newParentId), up to its first real
\* suspension; a call that returns early or throws changes nothing
MoveNode(nodeId, newParentId) ==
  /\ nodeId \in Live(nodes)
  /\ newParentId # Null =>
       newParentId \in Live(nodes) /\ TypeOf(newParentId) = "folder"
  /\ ~(TypeOf(nodeId) = "folder" /\ isDescendant(nodes, objs, newParentId, nodeId))
  /\ LET oldParentId == objs[nodeId].parentId
         ob1 == [objs EXCEPT ![nodeId].parentId = newParentId]
         newSiblings == getChildren(nodes, ob1, newParentId)
         ob2 == [ob1 EXCEPT ![nodeId].sortOrder =
                   Len(SelectSeq(newSiblings, LAMBDA n : n # nodeId))]
     IN  objs' = reorderSiblings(nodes, ob2, oldParentId)
  /\ UNCHANGED <<nodes, deleting>>
  /\ cfgFrame

\* the operator deletes a node: ConfigManager.deleteNode(id) up to its first
\* `await this.saveConfig()`
DeleteNode(id) ==
  /\ deleting = <<>>
  /\ id \in Live(nodes)
  /\ LET c == deleteNode(nodes, objs, <<>>, id)
     IN  /\ nodes' = c.nodes
         /\ objs' = c.objs
         /\ deleting' = c.deleting
  /\ cfgFrame

\* globalState.update has finished: the innermost deleteNode call returns
\* and the deletion goes on up to its next `await this.saveConfig()`
DeleteResume ==
  /\ deleting # <<>>
  /\ LET c == continueDelete(nodes, objs, SubSeq(deleting, 1, Len(deleting) - 1))
     IN  /\ nodes' = c.nodes
         /\ objs' = c.objs
         /\ deleting' = c.deleting
  /\ cfgFrame

InitConfig ==
  /\ InitConfigIdle
  /\ InitConn
  /\ authMethod \in AuthConfigs
  /\ stored = [h \in Hosts |-> FALSE]
  /\ limits = [sessions |-> 0, attempts |-> 0, hosts |-> {}, clock |-> 0,
               codes |-> {}]
  /\ InitHealthIdle
  /\ InitDecodersIdle
  /\ InitWorkspaceIdle

NextConfig ==
  \/ \E id \in NodeIds, parentId \in Folders \cup {Null} : AddNode(id, parentId)
  \/ \E id \in NodeIds, parentId \in Folders \cup {Null} : MoveNode(id, parentId)
  \/ \E id \in NodeIds : DeleteNode(id)
  \/ DeleteResume

SpecConfig == InitConfig /\ [][NextConfig]_vars

\* the visitNode closure of ConfigManager.getAllVisibleHosts: the hosts
\* found from node n downwards
RECURSIVE visitNode(_, _, _)
visitNode(ns, ob, n) ==
  IF TypeOf(n) = "host" THEN {n}
  ELSE UNION {visitNode(ns, ob, c) : c \in Range(getChildren(ns, ob, n))}

\* ConfigManager.getAllVisibleHosts()
getAllVisibleHosts(ns, ob) ==
  UNION {visitNode(ns, ob, r) : r \in Range(getChildren(ns, ob, Null))}

\* every parentId that is not null names a folder of the tree
ParentsExist ==
  \A n \in Live(nodes) :
    objs[n].parentId # Null =>
      objs[n].parentId \in Live(nodes) /\ TypeOf(objs[n].parentId) = "folder"

\* no node is found on the way up from its own parent
NoOwnAncestor ==
  \A n \in Live(nodes) : ~isDescendant(nodes, objs, objs[n].parentId, n)

\* every host of the configuration is visible from the roots
HostsReachable ==
  {n \in Live(nodes) : TypeOf(n) = "host"} = getAllVisibleHosts(nodes, objs)

\* C40: once the addNode, moveNode and deleteNode calls that were interleaved
\* have all finished, the tree is well-formed: every parentId that is not null
\* names an existing folder, no node is its own ancestor, and every host is
\* reachable from the roots
C40_TreeWellFormed ==
  deleting = <<>> => ParentsExist /\ NoOwnAncestor /\ HostsReachable

====
